---- MODULE Spec2Model ----
(***************************************************************************)
(* The download orchestrator of instaloader-gui: the ReelDownloader worker *)
(* thread (three variants of it), the two retrieval agents seen through    *)
(* their contract, and the handlers of the window that receive the         *)
(* worker's signals.                                                       *)
(*                                                                         *)
(*   variant "core"     src/src/core/downloader.py                         *)
(*                      (fallback between two agents, transcription)       *)
(*   variant "disabled" src/src/transcriptionDisabled/src/core/downloader.py *)
(*                      (fallback between two agents, no transcription)    *)
(*   variant "enabled"  src/src/transcriptionEnabled/src/core/downloader.py *)
(*                      (one built-in library-backed agent, no fallback)   *)
(*                                                                         *)
(* Signals are queued connections: the worker appends to `events`, the     *)
(* window handles them one at a time, in order (`delivered` counts them).  *)
(* The run of a whole queue does not track the payload of a completion     *)
(* event; a second specification follows one item through the stages of    *)
(* its agent and the transcription post-step, with the result dict and the *)
(* files of the item's folder.                                             *)
(***************************************************************************)
EXTENDS Integers, Sequences, FiniteSets, TLC

\* Longest queue handed to a worker.
MaxItems == 2

\* Longest url, in pieces, given to _extract_shortcode.
MaxUrlLen == 6

\* How far the clock is followed, how many ticks make a second, and how
\* many runs are started.
MaxClock == 7
TicksPerSecond == 2
MaxRuns == 3

\* How often audio extraction is run on one item folder.
MaxExtractions == 2

\* The largest max_retries a binary download is called with.
MaxRetries == 3

\* Most blocks of bytes one attempt of a binary download receives.
MaxChunks == 2

\* The longest text, in pieces, typed behind the scheme and host of a url.
MaxTailLen == 4

\* Most entries the results tab is followed to: a worker is not started
\* when its run could take the tab beyond this.
MaxResults == 3

VARIABLES
    variant,           \* which ReelDownloader is running
    download_options,  \* self.download_options (a dict: absent keys are absent)
    reel_items,        \* self.reel_items: the urls of the snapshot, in order
    is_running,        \* self.is_running
    whisper_model,     \* self.whisper_model is not None
    session_folder,    \* self.session_folder is not None
    loader,            \* self.loader is not None
    pc,                \* where run() is
    reel_number,       \* i of enumerate(self.reel_items, 1)
    attempt,           \* "primary" / "fallback": the agent whose try block runs
    primary_error,     \* message of the exception the primary agent raised
    setup_raised,      \* which setup step raised ("none" if none did)
    events,            \* every signal emitted so far, in emission order
    calls,             \* every agent invocation so far, in order
    delivered,         \* how many of `events` the window has handled
    reel_queue,        \* the window's self.reel_queue
    ui_finished,       \* download_finished has run
    yt_dlp_exe         \* the file bin/yt-dlp.exe exists

runVars == <<variant, download_options, reel_items, is_running, whisper_model,
          session_folder, loader, pc, reel_number, attempt, primary_error,
          setup_raised, events, calls, delivered, reel_queue, ui_finished,
          yt_dlp_exe>>

workerVars == <<variant, download_options, reel_items, whisper_model,
                session_folder, loader, pc, reel_number, attempt,
                primary_error, setup_raised, events, calls>>

uiVars == <<delivered, reel_queue, ui_finished>>

VARIABLES
    shortcode_url,     \* the url _extract_shortcode is called with
    shortcode,         \* what _extract_shortcode returned
    url_input,         \* the text in the window's url field
    notice             \* the last message box or status line of the window

codeVars == <<shortcode_url, shortcode>>

VARIABLES
    clock,             \* the time, in ticks, datetime.now() is read from
    session_dirs       \* the session directory of every run so far, in order

clockVars == <<clock, session_dirs>>

VARIABLES
    video_has_audio,   \* the video file of the folder has an audio stream
    video_clip,        \* the VideoFileClip of the last extraction
    audio_clip,        \* its audio clip
    extractions,       \* how often an extraction has been run on the folder
    extract_raised     \* an extraction has let an exception out

clipVars == <<video_has_audio, video_clip, audio_clip, extractions,
              extract_raised>>

\* What belongs to the specifications of single functions; no step of a
\* window or of a worker changes it.
VARIABLES
    download_with,     \* the function of bin_checker that fetches the binary
    max_retries,       \* its argument max_retries
    retry_count,       \* its local retry_count
    attempt_log,       \* whether each attempt so far succeeded, in order
    dest_file,         \* the destination file: whether it exists, its bytes
    returned,          \* what the function returned, "none" before it does
    retry_pc           \* where the function stands

retryVars == <<download_with, max_retries, retry_count, attempt_log,
               dest_file, returned, retry_pc>>

asideVars == <<codeVars, clockVars, clipVars, retryVars>>
fieldVars == <<url_input, notice>>

VARIABLES
    queue_list,        \* the rows of the window's queue list, one per item
    results_text,      \* the entries of the results tab
    overall_progress,  \* the value of the overall progress bar
    running_threads    \* how many worker threads have been started and have
                       \* not finished

displayVars == <<queue_list, results_text, overall_progress>>

\* What no step inside run() changes.
envVars == <<yt_dlp_exe, asideVars, fieldVars, displayVars, running_threads>>

VARIABLES
    result,            \* the result dict of the item being processed
    files,             \* the files in the item's folder
    agent_outcome,     \* what happened in the stages of the agent call
    post_outcome,      \* what happened in the transcription post-step
    transcribe_calls   \* how often whisper_model.transcribe was called

itemVars == <<result, files, agent_outcome, post_outcome, transcribe_calls>>

vars == <<runVars, itemVars, asideVars, fieldVars, displayVars, running_threads>>

-----------------------------------------------------------------------------
(* Inputs *)

Variants == {"core", "disabled", "enabled"}

HasFallback(v) == v \in {"core", "disabled"}

\* The k-th url of a queue. add_to_queue rejects a url that is already
\* queued, so the urls of a queue are pairwise different.
Url(k) == "https://www.instagram.com/reel/R" \o ToString(k) \o "/"

\* dict.get(key, default)
Get(d, key, default) == IF key \in DOMAIN d THEN d[key] ELSE default

\* The artifact check boxes of the window, as two settings of them: the one
\* the tests use, and one that skips the audio and thumbnail stages.
FlagProfiles ==
    { [video |-> TRUE,  thumbnail |-> TRUE,  audio |-> TRUE,  caption |-> TRUE],
      [video |-> FALSE, thumbnail |-> FALSE, audio |-> FALSE, caption |-> TRUE] }

\* Values of the "downloader" key: the two combo-box entries and a value
\* that is neither. The key may also be absent (the tests build the options
\* without it).
DownloaderValues == {"Instaloader", "yt-dlp", "gallery-dl"}

WithDownloader(f) ==
    {f} \cup {f @@ [downloader |-> d] : d \in DownloaderValues}

\* The option dicts a worker of variant v is built with. The window of the
\* transcription-disabled build passes no "transcribe" key; the single-agent
\* worker is built without a "downloader" key.
OptionsFor(v) ==
    CASE v = "core" ->
           UNION { WithDownloader(f @@ [transcribe |-> t]) :
                     f \in FlagProfiles, t \in BOOLEAN }
      [] v = "disabled" ->
           UNION { WithDownloader(f) : f \in FlagProfiles }
      [] v = "enabled" ->
           { f @@ [transcribe |-> t] : f \in FlagProfiles, t \in BOOLEAN }

-----------------------------------------------------------------------------
(* Signals *)

Progress(url, pct, status) ==
    [kind |-> "progress", url |-> url, pct |-> pct, msg |-> status]
Completed(url) ==
    [kind |-> "completed", url |-> url, pct |-> 0, msg |-> ""]
Error(url, message) ==
    [kind |-> "error", url |-> url, pct |-> 0, msg |-> message]
Finished ==
    [kind |-> "finished", url |-> "", pct |-> 0, msg |-> ""]

-----------------------------------------------------------------------------
(* Retrieval agents. An agent call either returns a result or raises; what  *)
(* it emits on the way is what the code emits on that path.                 *)

Returned(emits) == [emits |-> emits, raised |-> FALSE, msg |-> ""]
Raised(emits, message) == [emits |-> emits, raised |-> TRUE, msg |-> message]

\* External-tool agent. "raise_early": the executable is absent, which the
\* agent finds out before anything else. "raise_late": a subprocess, the
\* metadata parse, the thumbnail fetch or the caption write raised, all of
\* which come before the audio stage.
YtDlpOutcomes(exe_present) ==
    IF exe_present THEN {"ok", "raise_late"} ELSE {"raise_early"}

yt_dlp_download_reel(url, n, opts, outcome) ==
    LET start == <<Progress(url, 10, "Downloading with yt-dlp...")>>
        audio == IF Get(opts, "audio", FALSE)
                   THEN <<Progress("", 60, "Extracting audio...")>>
                   ELSE <<>>
    IN  CASE outcome = "raise_early" ->
               Raised(<<>>, "yt-dlp.exe not found in bin folder")
          [] outcome = "raise_late" ->
               Raised(start, "yt-dlp exited with an error")
          [] outcome = "ok" ->
               Returned(start \o audio \o <<Progress(url, 100, "Completed")>>)

\* Library-backed agent of the two-agent workers (src.agents.instaloader).
\* Every queued url carries a shortcode, so the agent gets as far as the
\* post lookup.
InstaloaderOutcomes == {"ok", "raise_late"}

instaloader_download_reel(url, n, opts, outcome) ==
    LET start == <<Progress(url, 10, "Fetching reel data...")>>
        audio == IF Get(opts, "audio", FALSE)
                   THEN <<Progress("", 60, "Extracting audio...")>>
                   ELSE <<>>
    IN  CASE outcome = "raise_late" ->
               Raised(start, "Post lookup failed")
          [] outcome = "ok" ->
               Returned(start \o audio \o <<Progress(url, 100, "Completed")>>)

\* The built-in agent of the single-agent worker. Every queued url carries
\* a shortcode. "raise_lookup": Post.from_shortcode raised. "raise_video":
\* the video download raised (only when the video stage runs).
NeedVideo(opts) ==
    \/ Get(opts, "video", TRUE)
    \/ Get(opts, "audio", FALSE)
    \/ Get(opts, "transcribe", FALSE)

DownloadReelOutcomes(opts) ==
    {"ok", "raise_lookup"}
        \cup (IF NeedVideo(opts) THEN {"raise_video"} ELSE {})

download_reel(url, n, opts, model_loaded, outcome) ==
    LET start == <<Progress(url, 10, "Fetching reel data...")>>
        video == IF NeedVideo(opts)
                   THEN <<Progress("", 20, "Downloading video...")>> ELSE <<>>
        thumb == IF Get(opts, "thumbnail", TRUE)
                   THEN <<Progress("", 40, "Downloading thumbnail.")>> ELSE <<>>
        audio == IF Get(opts, "audio", TRUE)
                   THEN <<Progress("", 60, "Extracting audio...")>> ELSE <<>>
        capt  == IF Get(opts, "caption", TRUE)
                   THEN <<Progress("", 80, "Getting caption...")>> ELSE <<>>
        trans == IF Get(opts, "transcribe", FALSE) /\ model_loaded
                   THEN <<Progress("", 90, "Transcribing audio...")>> ELSE <<>>
    IN  CASE outcome = "raise_lookup" ->
               Raised(start, "Download error: Post lookup failed")
          [] outcome = "raise_video" ->
               Raised(start \o video,
                      "Download error: Video download failed: HTTP error")
          [] outcome = "ok" ->
               Returned(start \o video \o thumb \o audio \o capt \o trans
                          \o <<Progress(url, 100, "Completed")>>)

OutcomesOf(agent, opts, exe_present) ==
    CASE agent = "yt-dlp"      -> YtDlpOutcomes(exe_present)
      [] agent = "Instaloader" -> InstaloaderOutcomes
      [] agent = "builtin"     -> DownloadReelOutcomes(opts)

\* _download_with_agent / _download_with_instaloader / _download_with_yt_dlp
download_with_agent(agent, url, n, opts, model_loaded, outcome) ==
    CASE agent = "yt-dlp"      -> yt_dlp_download_reel(url, n, opts, outcome)
      [] agent = "Instaloader" -> instaloader_download_reel(url, n, opts, outcome)
      [] agent = "builtin"     -> download_reel(url, n, opts, model_loaded, outcome)

-----------------------------------------------------------------------------
(* One item in detail: the result dict, the files of the item's folder and  *)
(* the stages of the agents and of the transcription post-step. A stage     *)
(* takes the dict and the folder as it finds them and an outcome of the     *)
(* calls it makes to the outside (subprocess, HTTP, moviepy, whisper, the   *)
(* file system).                                                            *)

\* result[key] = value
Put(d, key, value) ==
    [x \in DOMAIN d \cup {key} |-> IF x = key THEN value ELSE d[x]]

\* datetime.now().strftime("%Y%m%d_%H%M%S"): the time of day to the second.
strftime(now) == ToString(now \div TicksPerSecond)

\* Path("downloads") / f"session_{timestamp}"
SessionDir(now) == "downloads/session_" \o strftime(now)

\* ReelFolder that is the session directory itself, for every item.
ReelFolder_shared(n) == SessionDir(clock)

\* session_folder / f"reel{reel_number}", the session directory being the
\* one _setup_session made.
ReelFolder(n) == SessionDir(clock) \o "/reel" \o ToString(n)

\* reel_folder / f"{stem}{reel_number}{ext}"
FileIn(n, stem, ext) == ReelFolder(n) \o "/" \o stem \o ToString(n) \o ext

\* The paths the code gives to the files of item n.
VideoFile(n)      == FileIn(n, "video", ".mp4")
ThumbnailFile(n)  == FileIn(n, "thumbnail", ".jpg")
AudioFile(n)      == FileIn(n, "audio", ".mp3")
CaptionFile(n)    == FileIn(n, "caption", ".txt")
TempAudioFile(n)  == FileIn(n, "temp_audio", ".mp3")
TranscriptFile(n) == FileIn(n, "transcript", ".txt")

\* What a stage hands on: it went through or it raised. `transcribed`
\* counts the calls of whisper_model.transcribe, `happened` tells what the
\* outside did in each stage that ran.
Through(res, fs, emits) ==
    [raised |-> FALSE, msg |-> "", result |-> res, files |-> fs,
     emits |-> emits, transcribed |-> 0, happened |-> <<>>]
Raises(res, fs, emits, message) ==
    [raised |-> TRUE, msg |-> message, result |-> res, files |-> fs,
     emits |-> emits, transcribed |-> 0, happened |-> <<>>]

\* moviepy on a video file: the audio track is written, there is no audio
\* track, VideoFileClip or write_audiofile raises before anything is on
\* disk, or write_audiofile raises with part of the file written.
AudioOutcomes == {"ok", "no_track", "raise", "raise_partway"}

\* _extract_audio (the same code in the yt-dlp agent and in the single-agent
\* worker).
extract_audio(res, fs, n, opts, outcome) ==
    IF ~Get(opts, "audio", TRUE)
      THEN Through(res, fs, <<>>)
      ELSE LET emits == <<Progress("", 60, "Extracting audio...")>>
               video_path == Get(res, "video_path", VideoFile(n))
           IN  IF video_path \notin fs
                 THEN Through(res, fs, emits)
                 ELSE CASE outcome = "ok" ->
                             Through(Put(res, "audio_path", AudioFile(n)),
                                     fs \cup {AudioFile(n)}, emits)
                        [] outcome = "no_track" -> Through(res, fs, emits)
                        [] outcome = "raise" -> Through(res, fs, emits)
                        [] outcome = "raise_partway" ->
                             Through(res, fs \cup {AudioFile(n)}, emits)

\* The calls of the yt-dlp agent to the outside. meta "no_thumbnail": the
\* metadata has no thumbnail url.
YtDlpStageOutcomes ==
    [video : {"ok", "raise"}, meta : {"ok", "no_thumbnail", "raise"},
     thumbnail : {"ok", "raise"}, caption : {"ok", "raise"},
     audio : AudioOutcomes]

\* exe_check that looks for the executable after announcing the download.
exe_check_after_progress(url, exe_present) ==
    IF exe_present
      THEN Returned(<<Progress(url, 10, "Downloading with yt-dlp...")>>)
      ELSE Raised(<<Progress(url, 10, "Downloading with yt-dlp...")>>,
                  "yt-dlp.exe not found in bin folder")

\* if not yt_dlp_exe.exists(): raise FileNotFoundError(...), and the first
\* progress_callback after it.
exe_check(url, exe_present) ==
    IF exe_present
      THEN Returned(<<Progress(url, 10, "Downloading with yt-dlp...")>>)
      ELSE Raised(<<>>, "yt-dlp.exe not found in bin folder")

\* agents/yt_dlp.py download_reel, stage by stage. A stage that does not
\* run (its option is off, or an earlier stage raised) is "skipped".
yt_dlp_agent(url, n, opts, exe_present, o) ==
    LET found == exe_check(url, exe_present)
        start == found.emits
        video == IF exe_present THEN o.video ELSE "skipped"
        meta  == IF video = "ok" THEN o.meta ELSE "skipped"
        thumb == IF meta = "ok" /\ Get(opts, "thumbnail", FALSE)
                   THEN o.thumbnail ELSE "skipped"
        capt  == IF /\ meta \in {"ok", "no_thumbnail"}
                    /\ thumb # "raise"
                    /\ Get(opts, "caption", FALSE)
                   THEN o.caption ELSE "skipped"
        audio == IF /\ meta \in {"ok", "no_thumbnail"}
                    /\ thumb # "raise"
                    /\ capt # "raise"
                    /\ Get(opts, "audio", FALSE)
                   THEN o.audio ELSE "skipped"
        happened == [video |-> video, meta |-> meta, thumbnail |-> thumb,
                     caption |-> capt, audio |-> audio]
        r0 == [folder_path |-> ReelFolder(n)]
        r1 == Put(r0, "video_path", VideoFile(n))
        f1 == {VideoFile(n)}
        r2 == IF thumb = "ok"
                THEN Put(r1, "thumbnail_path", ThumbnailFile(n)) ELSE r1
        f2 == IF thumb = "ok" THEN f1 \cup {ThumbnailFile(n)} ELSE f1
        r3 == IF capt = "ok"
                THEN Put(Put(r2, "caption_path", CaptionFile(n)),
                         "caption", "caption text")
                ELSE r2
        f3 == IF capt = "ok" THEN f2 \cup {CaptionFile(n)} ELSE f2
        a == IF audio # "skipped"
               THEN extract_audio(r3, f3, n, opts, audio)
               ELSE Through(r3, f3, <<>>)
        out == IF found.raised
                 THEN Raises(r0, {}, found.emits, found.msg)
               ELSE IF video = "raise"
                 THEN Raises(r0, {}, start, "yt-dlp exited with an error")
               ELSE IF meta = "raise"
                 THEN Raises(r1, f1, start, "yt-dlp --dump-json failed")
               ELSE IF thumb = "raise"
                 THEN Raises(r1, f1, start, "thumbnail request failed")
               ELSE IF capt = "raise"
                 THEN Raises(r2, f2, start, "caption file could not be written")
               ELSE Through(Put(a.result, "title", "title"), a.files,
                            start \o a.emits
                              \o <<Progress(url, 100, "Completed")>>)
    IN  [out EXCEPT !.happened = happened]

\* _safe_file_removal: os.remove, an OSError only printed.
RemovalOutcomes == {"ok", "oserror"}

safe_file_removal(fs, path, outcome) ==
    IF outcome = "ok" THEN fs \ {path} ELSE fs

\* _extract_temp_audio: the pair (audio_source, temp_audio_path) it returns,
\* "" for None, and the folder afterwards.
extract_temp_audio(res, fs, n, outcome) ==
    LET video_path == Get(res, "video_path", VideoFile(n))
        none == [source |-> "", temp |-> "", files |-> fs]
    IN  IF video_path \notin fs
          THEN none
          ELSE CASE outcome = "ok" ->
                      [source |-> TempAudioFile(n), temp |-> TempAudioFile(n),
                       files |-> fs \cup {TempAudioFile(n)}]
                 [] outcome = "no_track" -> none
                 [] outcome = "raise" -> none
                 [] outcome = "raise_partway" ->
                      [none EXCEPT !.files = fs \cup {TempAudioFile(n)}]

\* whisper_model.transcribe and the writing of the transcript file.
TranscribeOutcomes == {"ok", "model_raise", "write_raise"}

PostOutcomes ==
    [extract : AudioOutcomes, transcribe : TranscribeOutcomes,
     remove : RemovalOutcomes]

\* FailureMarker that loses the marker text.
FailureMarker_blank(reason) == ""

\* result["transcript"] = f"Transcription failed: {str(e)}"
FailureMarker(reason) == "Transcription failed: " \o reason

\* The post-step that returns before it does anything.
NoTranscription(res, fs) ==
    [Through(res, fs, <<>>) EXCEPT
       !.happened = [extract |-> "skipped", transcribe |-> "skipped",
                     remove |-> "skipped"]]

\* TranscriptionOn that does not look at the model.
TranscriptionOn_whatever_the_model(opts, model_loaded) ==
    Get(opts, "transcribe", FALSE)

\* self.download_options.get("transcribe", False) and self.whisper_model
TranscriptionOn(opts, model_loaded) ==
    Get(opts, "transcribe", FALSE) /\ model_loaded

\* _transcribe_audio (the same code in the two workers that have it).
transcribe_audio(res, fs, n, opts, model_loaded, po) ==
    IF ~TranscriptionOn(opts, model_loaded)
      THEN NoTranscription(res, fs)
      ELSE
        LET emits == <<Progress("", 90, "Transcribing audio...")>>
            have == Get(res, "audio_path", "")
            x == IF have = ""
                   THEN extract_temp_audio(res, fs, n, po.extract)
                   ELSE [source |-> have, temp |-> "", files |-> fs]
            extract == IF have = "" /\ Get(res, "video_path", VideoFile(n)) \in fs
                         THEN po.extract ELSE "skipped"
            called == x.source # "" /\ x.source \in x.files
            transcribe == IF called THEN po.transcribe ELSE "skipped"
            remove == IF called /\ x.temp # "" /\ x.temp \in x.files
                        THEN po.remove ELSE "skipped"
            res1 == CASE transcribe = "ok" ->
                           Put(Put(res, "transcript", "transcript text"),
                               "transcript_path", TranscriptFile(n))
                      [] transcribe = "model_raise" ->
                           Put(res, "transcript", FailureMarker("model error"))
                      [] transcribe = "write_raise" ->
                           Put(res, "transcript", FailureMarker("write error"))
                      [] OTHER -> res
            fs1 == IF transcribe = "ok"
                     THEN x.files \cup {TranscriptFile(n)} ELSE x.files
            fs2 == IF remove # "skipped"
                     THEN safe_file_removal(fs1, x.temp, remove) ELSE fs1
        IN  [Through(res1, fs2, emits) EXCEPT
               !.transcribed = IF called THEN 1 ELSE 0,
               !.happened = [extract |-> extract, transcribe |-> transcribe,
                             remove |-> remove]]

\* handle_transcription_step that never gets to the transcription.
handle_transcription_step_left_out(res, fs, n, opts, model_loaded, po) ==
    NoTranscription(res, fs)

\* _handle_transcription of the two-agent worker, called after an agent has
\* returned when the option is set.
handle_transcription_step(res, fs, n, opts, model_loaded, po) ==
    IF Get(opts, "transcribe", FALSE)
      THEN transcribe_audio(res, fs, n, opts, model_loaded, po)
      ELSE NoTranscription(res, fs)

\* _download_video of the single-agent worker.
download_video(res, fs, n, opts, outcome) ==
    IF NeedVideo(opts)
      THEN LET emits == <<Progress("", 20, "Downloading video...")>>
           IN  IF outcome = "raise"
                 THEN Raises(res, fs, emits, "Video download failed: HTTP error")
                 ELSE Through(IF Get(opts, "video", TRUE)
                                THEN Put(res, "video_path", VideoFile(n))
                                ELSE res,
                              fs \cup {VideoFile(n)}, emits)
      ELSE Through(res, fs, <<>>)

\* _download_thumbnail of the single-agent worker. "no_attribute": the post
\* has neither thumbnail_url nor url; "raise": the request or the write
\* raised.
download_thumbnail(res, fs, n, opts, outcome) ==
    IF ~Get(opts, "thumbnail", TRUE)
      THEN Through(res, fs, <<>>)
      ELSE LET emits == <<Progress("", 40, "Downloading thumbnail.")>>
           IN  CASE outcome = "no_attribute" ->
                      Raises(res, fs, emits,
                             "Cannot find thumbnail URL on Post object")
                 [] outcome = "raise" -> Through(res, fs, emits)
                 [] outcome = "ok" ->
                      Through(Put(res, "thumbnail_path", ThumbnailFile(n)),
                              fs \cup {ThumbnailFile(n)}, emits)

\* save_caption that records the path before the file is written.
save_caption_path_first(res, fs, n, opts, outcome) ==
    IF Get(opts, "caption", TRUE)
      THEN LET emits == <<Progress("", 80, "Getting caption...")>>
               res1 == Put(Put(res, "caption", "caption text"),
                           "caption_path", CaptionFile(n))
           IN  IF outcome = "ok"
                 THEN Through(res1, fs \cup {CaptionFile(n)}, emits)
                 ELSE Through(res1, fs, emits)
      ELSE Through(res, fs, <<>>)

\* _save_caption of the single-agent worker.
save_caption(res, fs, n, opts, outcome) ==
    IF Get(opts, "caption", TRUE)
      THEN LET emits == <<Progress("", 80, "Getting caption...")>>
               res1 == Put(res, "caption", "caption text")
           IN  IF outcome = "ok"
                 THEN Through(Put(res1, "caption_path", CaptionFile(n)),
                              fs \cup {CaptionFile(n)}, emits)
                 ELSE Through(res1, fs, emits)
      ELSE Through(res, fs, <<>>)

\* The calls of the single-agent worker's _download_reel to the outside.
BuiltinStageOutcomes ==
    [lookup : {"ok", "raise"}, video : {"ok", "raise"},
     thumbnail : {"ok", "no_attribute", "raise"}, audio : AudioOutcomes,
     caption : {"ok", "raise"}]

\* temp_video_path set to the video file that is written although the video
\* option is off.
temp_video_path_assigned(n, opts) ==
    IF NeedVideo(opts) /\ ~Get(opts, "video", TRUE) THEN VideoFile(n) ELSE ""

\* temp_video_path = None at the head of _download_reel, "" for None; no
\* line of the function assigns it again.
temp_video_path(n, opts) == ""

\* The finally clause of _download_reel: if temp_video_path and
\* os.path.exists(str(temp_video_path)): self._safe_file_removal(...)
download_reel_finally(fs, path, outcome) ==
    IF path # "" /\ path \in fs THEN safe_file_removal(fs, path, outcome)
                                ELSE fs

\* helper_calls that calls a helper only when its option is set.
helper_calls_by_option(opts, video_raised, thumbnail_raised) ==
    LET when(flag, name) == IF flag THEN <<name>> ELSE <<>>
    IN  when(NeedVideo(opts), "video")
          \o (IF video_raised THEN <<>>
              ELSE when(Get(opts, "thumbnail", TRUE), "thumbnail")
                     \o (IF thumbnail_raised THEN <<>>
                         ELSE when(Get(opts, "audio", TRUE), "audio")
                                \o when(Get(opts, "caption", TRUE), "caption")
                                \o when(Get(opts, "transcribe", FALSE),
                                        "transcript")))

\* The five helper calls of _download_reel, one after the other inside its
\* try block: a helper that raises ends the block.
helper_calls(opts, video_raised, thumbnail_raised) ==
    <<"video">>
      \o (IF video_raised THEN <<>>
          ELSE <<"thumbnail">>
                 \o (IF thumbnail_raised THEN <<>>
                     ELSE <<"audio", "caption", "transcript">>))

\* _download_reel of the single-agent worker, stage by stage, for a url
\* that carries a shortcode. Whatever a stage raises is raised again as
\* Exception("Download error: ...").
builtin_agent(url, n, opts, model_loaded, o, po) ==
    LET start == <<Progress(url, 10, "Fetching reel data...")>>
        r0 == [folder_path |-> ReelFolder(n)]
        video == IF o.lookup = "ok" /\ NeedVideo(opts)
                   THEN o.video ELSE "skipped"
        thumb == IF /\ o.lookup = "ok" /\ video # "raise"
                    /\ Get(opts, "thumbnail", TRUE)
                   THEN o.thumbnail ELSE "skipped"
        later == o.lookup = "ok" /\ video # "raise" /\ thumb # "no_attribute"
        v == download_video(r0, {}, n, opts, video)
        t == download_thumbnail(v.result, v.files, n, opts, thumb)
        audio == IF /\ later /\ Get(opts, "audio", TRUE)
                    /\ Get(t.result, "video_path", VideoFile(n)) \in t.files
                   THEN o.audio ELSE "skipped"
        a == extract_audio(t.result, t.files, n, opts, audio)
        capt == IF later /\ Get(opts, "caption", TRUE)
                  THEN o.caption ELSE "skipped"
        c == save_caption(a.result, a.files, n, opts, capt)
        w == transcribe_audio(c.result, c.files, n, opts, model_loaded, po)
        happened == [lookup |-> o.lookup, video |-> video, thumbnail |-> thumb,
                     audio |-> audio, caption |-> capt,
                     post |-> IF later THEN w.happened
                                       ELSE NoTranscription(r0, {}).happened,
                     helpers |-> IF o.lookup = "ok"
                                   THEN helper_calls(opts, v.raised, t.raised)
                                   ELSE <<>>]
        out ==
          IF o.lookup = "raise"
            THEN Raises(<<>>, {}, start, "Download error: Post lookup failed")
          ELSE IF v.raised
            THEN Raises(v.result, v.files, start \o v.emits,
                        "Download error: " \o v.msg)
          ELSE IF t.raised
            THEN Raises(t.result, t.files, start \o v.emits \o t.emits,
                        "Download error: " \o t.msg)
          ELSE [Through(Put(w.result, "title", "Reel " \o ToString(n)),
                        w.files,
                        start \o v.emits \o t.emits \o a.emits \o c.emits
                          \o w.emits \o <<Progress(url, 100, "Completed")>>)
                  EXCEPT !.transcribed = w.transcribed]
    IN  [out EXCEPT !.happened = happened,
                    !.files = download_reel_finally(@, temp_video_path(n, opts),
                                                    po.remove)]

\* The calls of the library-backed agent to the outside.
InstaloaderStageOutcomes == [lookup : {"ok", "raise"}, video : {"ok", "raise"}]

\* The library-backed agent of the two-agent workers, by its contract: the
\* item folder under the session folder, folder_path set, and for each
\* requested artifact the file written and its path recorded.
instaloader_agent(url, n, opts, o) ==
    LET start == <<Progress(url, 10, "Fetching reel data...")>>
        r0 == [folder_path |-> ReelFolder(n)]
        video == IF o.lookup = "ok" /\ NeedVideo(opts)
                   THEN o.video ELSE "skipped"
        later == o.lookup = "ok" /\ video # "raise"
        v == download_video(r0, {}, n, opts, video)
        t == download_thumbnail(v.result, v.files, n, opts,
                                IF later THEN "ok" ELSE "skipped")
        c == save_caption(t.result, t.files, n, opts,
                          IF later THEN "ok" ELSE "skipped")
        happened == [lookup |-> o.lookup, video |-> video]
        out ==
          IF o.lookup = "raise"
            THEN Raises(r0, {}, start, "Post lookup failed")
          ELSE IF v.raised
            THEN Raises(v.result, v.files, start \o v.emits, v.msg)
          ELSE Through(Put(c.result, "title", "Reel " \o ToString(n)),
                       c.files,
                       start \o v.emits \o t.emits \o c.emits
                         \o <<Progress(url, 100, "Completed")>>)
    IN  [out EXCEPT !.happened = happened]

-----------------------------------------------------------------------------
(* The worker: ReelDownloader.run and what it calls *)

\* enumerate(self.reel_items): counting from zero.
FirstNumber_from_zero == 1 - 1

\* enumerate(self.reel_items, 1): the number i that goes with the first item.
FirstNumber == 1

\* The position in the list of the item numbered n, and the item of the
\* current iteration.
Position(n) == n - FirstNumber + 1
ItemUrl == reel_items[Position(reel_number)]

\* AgentPair whose else branch swaps the primary only.
AgentPair_half_swapped(downloader_name) ==
    IF downloader_name = "Instaloader"
      THEN <<"Instaloader", "yt-dlp">>
      ELSE <<"yt-dlp", "yt-dlp">>

\* primary_agent, fallback_agent = ... if downloader_name == "Instaloader" else ...
AgentPair(downloader_name) ==
    IF downloader_name = "Instaloader"
      THEN <<"Instaloader", "yt-dlp">>
      ELSE <<"yt-dlp", "Instaloader">>

DownloaderName(opts) == Get(opts, "downloader", "Instaloader")

PrimaryAgent(v, opts) ==
    IF HasFallback(v) THEN AgentPair(DownloaderName(opts))[1] ELSE "builtin"

FallbackAgent(v, opts) == AgentPair(DownloaderName(opts))[2]

\* The progress event that opens an item.
Starting(v, url, primary_agent_name) ==
    IF HasFallback(v)
      THEN Progress(url, 0,
                    "Starting download with " \o primary_agent_name \o "...")
      ELSE Progress(url, 0, "Starting download...")

\* run_except that reports the error and lets the run go on into the loop.
run_except_continues(message) ==
    [emits |-> <<Error("", "Thread error: " \o message)>>, pc |-> "loop"]

\* run() without its handler: the exception ends the thread where it is.
run_except_missing(message) ==
    [emits |-> <<>>, pc |-> "crashed"]

\* run(): except Exception as e: self.error_occurred.emit("", ...), after
\* which run() returns.
run_except(message) ==
    [emits |-> <<Error("", "Thread error: " \o message)>>, pc |-> "returned"]

\* primary_except with the primary failure reported as the item's error.
primary_except_reports_error(v, url, primary_agent_name, fallback_agent_name, e) ==
    IF HasFallback(v)
      THEN [emits |-> <<Error(url, primary_agent_name \o " failed: " \o e)>>,
            pc |-> "fallback", next_item |-> FALSE]
      ELSE [emits |-> <<Error(url, "Download failed: " \o e)>>,
            pc |-> "loop", next_item |-> TRUE]

\* _process_downloads: the except clause of the first try block. The
\* two-agent workers announce the fallback and go on to it; the single-agent
\* worker reports the item's error and goes on to the next item.
primary_except(v, url, primary_agent_name, fallback_agent_name, e) ==
    IF HasFallback(v)
      THEN [emits |-> <<Progress(url, 0,
                          primary_agent_name \o " failed: " \o e
                            \o ". Trying fallback " \o fallback_agent_name
                            \o "...")>>,
            pc |-> "fallback", next_item |-> FALSE]
      ELSE [emits |-> <<Error(url, "Download failed: " \o e)>>,
            pc |-> "loop", next_item |-> TRUE]

\* fallback_except with the second exception swallowed.
fallback_except_silent(url, e, e2) ==
    [emits |-> <<>>, pc |-> "loop", next_item |-> TRUE]

\* fallback_except that gives the queue up after the item's error.
fallback_except_aborts(url, e, e2) ==
    [emits |-> <<Error(url, "Both downloaders failed: " \o e \o " | " \o e2)>>,
     pc |-> "returned", next_item |-> TRUE]

\* fallback_except missing: the exception reaches the handler of run().
fallback_except_escapes(url, e, e2) ==
    [emits |-> <<Error("", "Thread error: " \o e2)>>,
     pc |-> "returned", next_item |-> FALSE]

\* fallback_except naming the fallback's failure first.
fallback_except_swapped(url, e, e2) ==
    [emits |-> <<Error(url, "Both downloaders failed: " \o e2 \o " | " \o e)>>,
     pc |-> "loop", next_item |-> TRUE]

\* _process_downloads: the except clause around the fallback agent.
fallback_except(url, e, e2) ==
    [emits |-> <<Error(url, "Both downloaders failed: " \o e \o " | " \o e2)>>,
     pc |-> "loop", next_item |-> TRUE]

\* _handle_transcription / _transcribe_audio, as far as signals go: the
\* post-step announces itself only when the option is set and a model is
\* loaded.
handle_transcription(opts, model_loaded) ==
    IF Get(opts, "transcribe", FALSE) /\ model_loaded
      THEN <<Progress("", 90, "Transcribing audio...")>>
      ELSE <<>>

\* What follows a successful agent call inside its try block, up to and
\* including the completion event.
after_download(v, url, opts, model_loaded) ==
    (IF v = "core" /\ Get(opts, "transcribe", FALSE)
       THEN handle_transcription(opts, model_loaded)
       ELSE <<>>)
      \o <<Completed(url)>>

\* The for statement moving on to the next item.
NextNumber(n) == n + 1

\* loop_head without the is_running check.
loop_head_ignores_stop(n, items, running) ==
    IF Position(n) > Len(items) THEN "returned" ELSE "primary"

\* The loop head: the for statement and the is_running check.
loop_head(n, items, running) ==
    IF Position(n) > Len(items) \/ ~running THEN "returned" ELSE "primary"

SetupSession ==
    /\ pc = "setup_session"
    /\ \E ok \in BOOLEAN :
         IF ok
           THEN /\ session_folder' = TRUE
                /\ pc' = "lazy_load"
                /\ UNCHANGED <<setup_raised, events>>
           ELSE /\ setup_raised' = "session"
                /\ events' = events \o run_except("mkdir failed").emits
                /\ pc' = run_except("mkdir failed").pc
                /\ UNCHANGED session_folder
    /\ UNCHANGED <<variant, download_options, reel_items, is_running,
                   whisper_model, loader, reel_number, attempt, primary_error,
                   calls>>
    /\ UNCHANGED <<uiVars, envVars, itemVars>>

LazyLoadDependencies ==
    /\ pc = "lazy_load"
    /\ IF variant # "disabled" /\ Get(download_options, "transcribe", FALSE)
         THEN /\ events' = events \o
                    <<Progress("", 0, "Loading dependencies..."),
                      Progress("", 5, "Loading Whisper model...")>>
              /\ \E loaded \in BOOLEAN : whisper_model' = loaded
         ELSE /\ events' = Append(events,
                                  Progress("", 0, "Loading dependencies..."))
              /\ UNCHANGED whisper_model
    /\ pc' = "setup_instaloader"
    /\ UNCHANGED <<variant, download_options, reel_items, is_running,
                   session_folder, loader, reel_number, attempt,
                   primary_error, setup_raised, calls>>
    /\ UNCHANGED <<uiVars, envVars, itemVars>>

SetupInstaloader ==
    /\ pc = "setup_instaloader"
    /\ LET announce == Progress("", 10, "Setting up downloader...")
           handler == run_except("Missing instaloader package")
       IN  \E ok \in BOOLEAN :
             IF ok
               THEN /\ loader' = TRUE
                    /\ events' = Append(events, announce)
                    /\ pc' = "loop"
                    /\ UNCHANGED setup_raised
               ELSE /\ setup_raised' = "instaloader"
                    /\ events' = Append(events, announce) \o handler.emits
                    /\ pc' = handler.pc
                    /\ UNCHANGED loader
    /\ UNCHANGED <<variant, download_options, reel_items, is_running,
                   whisper_model, session_folder, reel_number, attempt,
                   primary_error, calls>>
    /\ UNCHANGED <<uiVars, envVars, itemVars>>

ProcessNext ==
    /\ pc = "loop"
    /\ pc' = loop_head(reel_number, reel_items, is_running)
    /\ attempt' = "primary"
    /\ UNCHANGED <<variant, download_options, reel_items, is_running,
                   whisper_model, session_folder, loader, reel_number,
                   primary_error, setup_raised, events, calls>>
    /\ UNCHANGED <<uiVars, envVars, itemVars>>

PrimaryAttempt ==
    /\ pc = "primary"
    /\ LET agent == PrimaryAgent(variant, download_options)
           other == FallbackAgent(variant, download_options)
           start == Starting(variant, ItemUrl, agent)
       IN  \E outcome \in OutcomesOf(agent, download_options, yt_dlp_exe) :
             LET r == download_with_agent(agent, ItemUrl, reel_number,
                                          download_options, whisper_model,
                                          outcome)
                 h == primary_except(variant, ItemUrl, agent, other, r.msg)
             IN  /\ calls' = Append(calls,
                        [n |-> reel_number, url |-> ItemUrl, agent |-> agent,
                         role |-> "primary", raised |-> r.raised,
                         msg |-> r.msg, emits |-> r.emits])
                 /\ IF r.raised
                      THEN /\ events' = events \o <<start>> \o r.emits \o h.emits
                           /\ pc' = h.pc
                           /\ primary_error' = r.msg
                           /\ reel_number' = IF h.next_item
                                               THEN NextNumber(reel_number)
                                               ELSE reel_number
                           /\ attempt' = IF h.next_item THEN "primary"
                                                        ELSE "fallback"
                      ELSE /\ events' = events \o <<start>> \o r.emits
                           /\ pc' = "post"
                           /\ UNCHANGED <<primary_error, reel_number, attempt>>
    /\ UNCHANGED <<variant, download_options, reel_items, is_running,
                   whisper_model, session_folder, loader, setup_raised>>
    /\ UNCHANGED <<uiVars, envVars, itemVars>>

FallbackAttempt ==
    /\ pc = "fallback"
    /\ LET agent == FallbackAgent(variant, download_options)
       IN  \E outcome \in OutcomesOf(agent, download_options, yt_dlp_exe) :
             LET r == download_with_agent(agent, ItemUrl, reel_number,
                                          download_options, whisper_model,
                                          outcome)
                 h == fallback_except(ItemUrl, primary_error, r.msg)
             IN  /\ calls' = Append(calls,
                        [n |-> reel_number, url |-> ItemUrl, agent |-> agent,
                         role |-> "fallback", raised |-> r.raised,
                         msg |-> r.msg, emits |-> r.emits])
                 /\ IF r.raised
                      THEN /\ events' = events \o r.emits \o h.emits
                           /\ pc' = h.pc
                           /\ reel_number' = IF h.next_item
                                               THEN NextNumber(reel_number)
                                               ELSE reel_number
                      ELSE /\ events' = events \o r.emits
                           /\ pc' = "post"
                           /\ UNCHANGED reel_number
    /\ UNCHANGED <<variant, download_options, reel_items, is_running,
                   whisper_model, session_folder, loader, attempt,
                   primary_error, setup_raised>>
    /\ UNCHANGED <<uiVars, envVars, itemVars>>

CompleteItem ==
    /\ pc = "post"
    /\ events' = events \o after_download(variant, ItemUrl, download_options,
                                          whisper_model)
    /\ reel_number' = NextNumber(reel_number)
    /\ pc' = "loop"
    /\ UNCHANGED <<variant, download_options, reel_items, is_running,
                   whisper_model, session_folder, loader, attempt,
                   primary_error, setup_raised, calls>>
    /\ UNCHANGED <<uiVars, envVars, itemVars>>

\* QThread emits finished() when run() has returned.
ThreadFinished ==
    /\ pc = "returned"
    /\ events' = Append(events, Finished)
    /\ pc' = "done"
    /\ running_threads' = running_threads - 1
    /\ UNCHANGED <<variant, download_options, reel_items, is_running,
                   whisper_model, session_folder, loader, reel_number,
                   attempt, primary_error, setup_raised, calls>>
    /\ UNCHANGED <<uiVars, yt_dlp_exe, asideVars, fieldVars, displayVars,
                   itemVars>>

\* ReelDownloader.stop(), called from the window's thread while the worker
\* thread is running.
stop ==
    /\ pc \notin {"done", "crashed"}
    /\ is_running
    /\ is_running' = FALSE
    /\ UNCHANGED <<workerVars, envVars, itemVars>>
    /\ UNCHANGED <<uiVars, envVars, itemVars>>

-----------------------------------------------------------------------------
(* The window: the slots connected to the worker's signals *)

SignalQueued == delivered < Len(events)
NextSignal == events[delivered + 1]

\* FirstWithUrl that takes the first item whatever its url.
FirstWithUrl_whatever_the_url(queue, url) == IF queue # <<>> THEN 1 ELSE 0

\* for item in ...: if item.url == url: ...; break
FirstWithUrl(queue, url) ==
    IF \E k \in DOMAIN queue : queue[k].url = url
      THEN CHOOSE k \in DOMAIN queue :
             /\ queue[k].url = url
             /\ \A j \in DOMAIN queue : queue[j].url = url => k <= j
      ELSE 0

\* The queue with the fields `changes` assigned in the first item of that
\* url (unchanged when no item has it).
UpdateItem(queue, url, changes) ==
    LET k == FirstWithUrl(queue, url)
    IN  IF k = 0 THEN queue ELSE [queue EXCEPT ![k] = changes @@ queue[k]]

\* The row of a queued url as add_to_queue shows it, and as the slots show
\* it later. A row holds its item; the url stands for it, and for the url
\* cut to 40 or 50 characters in the text.
ListRow(url, icon, label) == [url |-> url, icon |-> icon, label |-> label]
NewRow(url) == ListRow(url, "link", "")

\* The rows with the first row of that url replaced.
UpdateRow(rows, url, icon, label) ==
    LET k == FirstWithUrl(rows, url)
    IN  IF k = 0 THEN rows ELSE [rows EXCEPT ![k] = ListRow(url, icon, label)]

\* update_progress: the text of the row.
progress_row(rows, url, progress, status) ==
    IF url = "" THEN rows
    ELSE IF progress = 100 THEN UpdateRow(rows, url, "done", status)
    ELSE UpdateRow(rows, url, "downloading",
                   status \o " (" \o ToString(progress) \o "%)")

RECURSIVE SumProgress(_)
SumProgress(queue) ==
    IF queue = <<>> THEN 0 ELSE Head(queue).progress + SumProgress(Tail(queue))

\* OverallProgress that forgets to divide.
OverallProgress_sum(queue, bar) ==
    IF queue # <<>> THEN SumProgress(queue) ELSE bar

\* update_progress: total_progress // len(self.reel_queue), the bar left
\* alone when the queue is empty.
OverallProgress(queue, bar) ==
    IF queue # <<>> THEN SumProgress(queue) \div Len(queue) ELSE bar

\* _add_to_results and the entry download_error appends.
CompletedEntry(url) == [kind |-> "COMPLETED", url |-> url, msg |-> ""]
ErrorEntry(url, message) == [kind |-> "ERROR", url |-> url, msg |-> message]

\* on_progress that writes the progress into every item of the queue.
on_progress_every_item(queue, url, progress, status) ==
    IF url # ""
      THEN [k \in DOMAIN queue |->
              [progress |-> progress, status |-> status] @@ queue[k]]
      ELSE queue

on_progress(queue, url, progress, status) ==
    IF url # ""
      THEN UpdateItem(queue, url, [progress |-> progress, status |-> status])
      ELSE queue

on_completed(queue, url) ==
    UpdateItem(queue, url, [status |-> "Completed", progress |-> 100])

\* on_error that records the message and leaves the status alone.
on_error_keeps_status(queue, url, error_message) ==
    UpdateItem(queue, url, [error_message |-> error_message])

on_error(queue, url, error_message) ==
    UpdateItem(queue, url, [status |-> "Error", error_message |-> error_message])

update_progress ==
    /\ SignalQueued
    /\ NextSignal.kind = "progress"
    /\ reel_queue' = on_progress(reel_queue, NextSignal.url, NextSignal.pct, NextSignal.msg)
    /\ queue_list' = progress_row(queue_list, NextSignal.url, NextSignal.pct,
                                  NextSignal.msg)
    /\ overall_progress' = OverallProgress(reel_queue', overall_progress)
    /\ delivered' = delivered + 1
    /\ UNCHANGED <<ui_finished, is_running, results_text>>
    /\ UNCHANGED <<workerVars, yt_dlp_exe, asideVars, fieldVars,
                   running_threads, itemVars>>

download_completed ==
    /\ SignalQueued
    /\ NextSignal.kind = "completed"
    /\ reel_queue' = on_completed(reel_queue, NextSignal.url)
    /\ results_text' = Append(results_text, CompletedEntry(NextSignal.url))
    /\ queue_list' = UpdateRow(queue_list, NextSignal.url, "done", "Completed")
    /\ delivered' = delivered + 1
    /\ UNCHANGED <<ui_finished, is_running, overall_progress>>
    /\ UNCHANGED <<workerVars, yt_dlp_exe, asideVars, fieldVars,
                   running_threads, itemVars>>

download_error ==
    /\ SignalQueued
    /\ NextSignal.kind = "error"
    /\ reel_queue' = on_error(reel_queue, NextSignal.url, NextSignal.msg)
    /\ results_text' = Append(results_text,
                              ErrorEntry(NextSignal.url, NextSignal.msg))
    /\ queue_list' = UpdateRow(queue_list, NextSignal.url, "failed", "Error")
    /\ delivered' = delivered + 1
    /\ UNCHANGED <<ui_finished, is_running, overall_progress>>
    /\ UNCHANGED <<workerVars, yt_dlp_exe, asideVars, fieldVars,
                   running_threads, itemVars>>

download_finished ==
    /\ SignalQueued
    /\ NextSignal.kind = "finished"
    /\ ui_finished' = TRUE
    /\ overall_progress' = 100
    /\ notice' = "All downloads completed"
    /\ delivered' = delivered + 1
    /\ UNCHANGED <<reel_queue, is_running, queue_list, results_text>>
    /\ UNCHANGED <<workerVars, yt_dlp_exe, asideVars, url_input,
                   running_threads, itemVars>>

-----------------------------------------------------------------------------
(* The specification: one run of a worker that start_download has just     *)
(* built from the queue and started.                                       *)

\* Whether bin/yt-dlp.exe is there. Only the two-agent workers look.
ExeStates(v) == IF HasFallback(v) THEN BOOLEAN ELSE {TRUE}

NewItem(url) ==
    [url |-> url, status |-> "Pending", progress |-> 0, error_message |-> ""]

\* _extract_shortcode before it is called, and what it returns: a string,
\* possibly empty, or None.
NotCalled == [called |-> FALSE, some |-> FALSE, value |-> <<>>]
None == [called |-> TRUE, some |-> FALSE, value |-> <<>>]
Some(v) == [called |-> TRUE, some |-> TRUE, value |-> v]

\* A run is not concerned with the url field of the window, and the
\* shortcode of a queued url is taken for granted.
ClockIdle ==
    /\ clock = 0
    /\ session_dirs = <<>>

\* No extraction has been run.
ClipIdle ==
    /\ video_has_audio = TRUE
    /\ video_clip = "none"
    /\ audio_clip = "none"
    /\ extractions = 0
    /\ extract_raised = FALSE

\* No binary is being fetched.
RetryIdle ==
    /\ download_with = "none"
    /\ max_retries = 0
    /\ retry_count = 0
    /\ attempt_log = <<>>
    /\ dest_file = [exists |-> FALSE, data |-> <<>>]
    /\ returned = "none"
    /\ retry_pc = "idle"

EnvIdle ==
    /\ shortcode_url = <<>>
    /\ shortcode = NotCalled
    /\ ClockIdle
    /\ ClipIdle
    /\ RetryIdle
    /\ url_input = <<>>
    /\ notice = ""

\* The run of a queue leaves the per-item detail out.
ItemIdle ==
    /\ result = <<>>
    /\ files = {}
    /\ agent_outcome = <<>>
    /\ post_outcome = <<>>
    /\ transcribe_calls = 0

\* The worker and the window when start_download has built a worker of
\* variant v for a queue of len items and started it.
Started_download(v, len, opts, exe) ==
    /\ variant = v
    /\ yt_dlp_exe = exe
    /\ download_options = opts
    /\ reel_queue = [k \in 1..len |-> NewItem(Url(k))]
    /\ reel_items = [k \in 1..len |-> Url(k)]
    /\ is_running = TRUE
    /\ whisper_model = FALSE
    /\ session_folder = FALSE
    /\ loader = FALSE
    /\ pc = "setup_session"
    /\ reel_number = FirstNumber
    /\ attempt = "primary"
    /\ primary_error = ""
    /\ setup_raised = "none"
    /\ events = <<>>
    /\ calls = <<>>
    /\ delivered = 0
    /\ ui_finished = FALSE
    /\ queue_list = [k \in 1..len |-> NewRow(Url(k))]
    /\ results_text = <<>>
    /\ overall_progress = 0
    /\ running_threads = 1
    /\ ItemIdle
    /\ EnvIdle

Init ==
    \E v \in Variants, len \in 1..MaxItems :
      \E opts \in OptionsFor(v), exe \in ExeStates(v) :
        Started_download(v, len, opts, exe)

Worker ==
    \/ SetupSession
    \/ LazyLoadDependencies
    \/ SetupInstaloader
    \/ ProcessNext
    \/ PrimaryAttempt
    \/ FallbackAttempt
    \/ CompleteItem
    \/ ThreadFinished

Window ==
    \/ update_progress
    \/ download_completed
    \/ download_error
    \/ download_finished

Next == Worker \/ Window \/ stop

Spec == Init /\ [][Next]_vars

\* The worker thread is scheduled and every call it makes returns or raises;
\* the window's event loop keeps handling queued signals. Nothing obliges
\* anyone to call stop().
FairSpec == Spec /\ WF_vars(Worker) /\ WF_vars(Window)

-----------------------------------------------------------------------------
(* The second specification: a run of one item, followed through the       *)
(* stages of the agent that is tried first and through the transcription   *)
(* post-step, with every setting of the check boxes. Where a two-agent     *)
(* worker turns to its fallback the item is not followed further: the      *)
(* fallback is the business of the first specification.                    *)

AllFlags ==
    [video : BOOLEAN, thumbnail : BOOLEAN, audio : BOOLEAN, caption : BOOLEAN]

\* The agent with the source at hand goes first in the two-agent workers.
ItemOptions(v) ==
    CASE v = "core" ->
           { f @@ [transcribe |-> t, downloader |-> "yt-dlp"] :
               f \in AllFlags, t \in BOOLEAN }
      [] v = "disabled" ->
           { f @@ [downloader |-> "yt-dlp"] : f \in AllFlags }
      [] v = "enabled" ->
           { f @@ [transcribe |-> t] : f \in AllFlags, t \in BOOLEAN }

\* download_completed.emit(item.url, result)
CompletedWith(url, payload) == Completed(url) @@ [payload |-> payload]

\* Every way the call of the agent can go.
AgentRuns(agent, url, n, opts, model_loaded, exe_present) ==
    CASE agent = "yt-dlp" ->
           { yt_dlp_agent(url, n, opts, exe_present, o) :
               o \in YtDlpStageOutcomes }
      [] agent = "Instaloader" ->
           { instaloader_agent(url, n, opts, o) :
               o \in InstaloaderStageOutcomes }
      [] agent = "builtin" ->
           { builtin_agent(url, n, opts, model_loaded, o, po) :
               o \in BuiltinStageOutcomes, po \in PostOutcomes }

\* The first try block up to the return of the agent, or its except clause.
DownloadItem ==
    /\ pc = "primary"
    /\ LET agent == PrimaryAgent(variant, download_options)
           other == FallbackAgent(variant, download_options)
           start == Starting(variant, ItemUrl, agent)
       IN  \E r \in AgentRuns(agent, ItemUrl, reel_number, download_options,
                              whisper_model, yt_dlp_exe) :
             LET h == primary_except(variant, ItemUrl, agent, other, r.msg)
             IN  /\ calls' = Append(calls,
                        [n |-> reel_number, url |-> ItemUrl, agent |-> agent,
                         role |-> "primary", raised |-> r.raised,
                         msg |-> r.msg,
                         folder |-> Get(r.result, "folder_path", ""),
                         emits |-> r.emits, files |-> r.files,
                         happened |-> r.happened])
                 /\ files' = r.files
                 /\ agent_outcome' = r.happened
                 /\ transcribe_calls' = transcribe_calls + r.transcribed
                 /\ post_outcome' = IF agent = "builtin"
                                      THEN r.happened.post ELSE post_outcome
                 /\ IF r.raised
                      THEN /\ events' = events \o <<start>> \o r.emits \o h.emits
                           /\ pc' = h.pc
                           /\ primary_error' = r.msg
                           /\ reel_number' = IF h.next_item
                                               THEN NextNumber(reel_number)
                                               ELSE reel_number
                           /\ attempt' = IF h.next_item THEN "primary"
                                                        ELSE "fallback"
                           /\ UNCHANGED result
                      ELSE /\ events' = events \o <<start>> \o r.emits
                           /\ pc' = "post"
                           /\ result' = r.result
                           /\ UNCHANGED <<primary_error, reel_number, attempt>>
    /\ UNCHANGED <<variant, download_options, reel_items, is_running,
                   whisper_model, session_folder, loader, setup_raised>>
    /\ UNCHANGED <<uiVars, envVars>>

\* After the agent has returned: if self.download_options.get("transcribe",
\* False): self._handle_transcription(result, i), in the two-agent worker
\* that has the post-step.
TranscribeItem ==
    /\ pc = "post"
    /\ IF variant = "core"
         THEN \E po \in PostOutcomes :
                LET w == handle_transcription_step(result, files, reel_number,
                                                   download_options,
                                                   whisper_model, po)
                IN  /\ result' = w.result
                    /\ files' = w.files
                    /\ post_outcome' = w.happened
                    /\ transcribe_calls' = transcribe_calls + w.transcribed
                    /\ events' = events \o w.emits
         ELSE UNCHANGED <<result, files, post_outcome, transcribe_calls,
                          events>>
    /\ pc' = "emit"
    /\ UNCHANGED <<variant, download_options, reel_items, is_running,
                   whisper_model, session_folder, loader, reel_number,
                   attempt, primary_error, setup_raised, calls, agent_outcome>>
    /\ UNCHANGED <<uiVars, envVars>>

\* self.download_completed.emit(item.url, result), and on to the next
\* iteration.
EmitCompleted ==
    /\ pc = "emit"
    /\ events' = Append(events, CompletedWith(ItemUrl, result))
    /\ reel_number' = NextNumber(reel_number)
    /\ pc' = "loop"
    /\ UNCHANGED <<variant, download_options, reel_items, is_running,
                   whisper_model, session_folder, loader, attempt,
                   primary_error, setup_raised, calls>>
    /\ UNCHANGED <<uiVars, envVars, itemVars>>

ItemInit ==
    \E v \in Variants :
      \E opts \in ItemOptions(v), exe \in ExeStates(v) :
        Started_download(v, 1, opts, exe)

ItemNext ==
    \/ SetupSession
    \/ LazyLoadDependencies
    \/ SetupInstaloader
    \/ ProcessNext
    \/ DownloadItem
    \/ TranscribeItem
    \/ EmitCompleted
    \/ ThreadFinished

ItemSpec == ItemInit /\ [][ItemNext]_vars

-----------------------------------------------------------------------------
(* Reading the history *)

\* How many signals of `evs` have that kind and carry that url.
CountOf(evs, kind, url) ==
    Cardinality({j \in DOMAIN evs : evs[j].kind = kind /\ evs[j].url = url})

CompletedCount(url) == CountOf(events, "completed", url)
ErrorCount(url) == CountOf(events, "error", url)
TerminalCount(url) == CompletedCount(url) + ErrorCount(url)
FinishedCount == CountOf(events, "finished", "")

\* The invocations made for the item numbered k.
CallsOf(k, role) ==
    {c \in DOMAIN calls : calls[c].n = k /\ calls[c].role = role}

PrimaryRaised(k)    == \E c \in CallsOf(k, "primary")  : calls[c].raised
PrimaryReturned(k)  == \E c \in CallsOf(k, "primary")  : ~calls[c].raised
FallbackRaised(k)   == \E c \in CallsOf(k, "fallback") : calls[c].raised
FallbackReturned(k) == \E c \in CallsOf(k, "fallback") : ~calls[c].raised
FallbackCalled(k)   == CallsOf(k, "fallback") # {}
Started(k)          == CallsOf(k, "primary") # {}

Numbers == DOMAIN reel_items

\* The worker is inside the iteration of an item.
InItem(p) == p \in {"primary", "fallback", "post"}

\* The worker has left the iteration of item k.
Left(k) == reel_number > k \/ pc \in {"returned", "done"}

-----------------------------------------------------------------------------
(* Claims *)

\* C1: in the two-agent workers, an item whose primary agent raised and
\* whose fallback agent returned never gets an error event, never gets more
\* than one completion event, and has exactly one completion event once the
\* worker has left the item.
C1_FallbackSuccessCompletesOnce ==
    HasFallback(variant) =>
      \A k \in Numbers :
        (PrimaryRaised(k) /\ FallbackReturned(k)) =>
          /\ ErrorCount(reel_items[k]) = 0
          /\ CompletedCount(reel_items[k]) <= 1
          /\ Left(k) => CompletedCount(reel_items[k]) = 1

\* A finished run in which the second item was rescued by its fallback agent.
C1_Witness ==
    /\ pc = "done"
    /\ HasFallback(variant)
    /\ Len(reel_items) >= 2
    /\ PrimaryRaised(2) /\ FallbackReturned(2)
    /\ CompletedCount(reel_items[2]) = 1

\* Both agents of the two-agent worker raised for every item of the queue.
BothRaisedForEveryItem ==
    /\ HasFallback(variant)
    /\ \A k \in Numbers : PrimaryRaised(k) /\ FallbackRaised(k)

\* C2: when both agents raise for every item, every item has exactly one
\* error event and no completion event, and the run goes on to emit
\* finished().
C2_AllFailStillFinishes ==
    /\ [](BothRaisedForEveryItem =>
            \A k \in Numbers : /\ ErrorCount(reel_items[k]) = 1
                               /\ CompletedCount(reel_items[k]) = 0)
    /\ (BothRaisedForEveryItem ~> (FinishedCount = 1))

\* A finished run of a two-item queue in which every agent call raised.
C2_Witness ==
    /\ pc = "done"
    /\ Len(reel_items) >= 2
    /\ BothRaisedForEveryItem
    /\ FinishedCount = 1

\* The window has handled finished() and every signal before it.
RunOver == ui_finished

C4_ErrorDoesNotAbortQueue ==
    \A k \in 1..MaxItems :
      (k < Len(reel_items) /\ ErrorCount(reel_items[k]) = 1)
        ~> (Started(k + 1) \/ ~is_running)

\* The first item ended with an error, no stop was requested, and the
\* second item has been started.
C4_Witness ==
    /\ Len(reel_items) >= 2
    /\ ErrorCount(reel_items[1]) = 1
    /\ is_running
    /\ Started(2)

\* All the invocations made for the item numbered k.
AllCallsOf(k) == {c \in DOMAIN calls : calls[c].n = k}

\* C5: whatever the "downloader" option, the two agents of an item are
\* different; the fallback agent is invoked exactly when the primary raised
\* (at once: the only state between the two is the one about to call the
\* fallback); each role is invoked at most once and no agent twice.
C5_FallbackIffPrimaryRaised ==
    /\ HasFallback(variant) =>
         /\ PrimaryAgent(variant, download_options)
              # FallbackAgent(variant, download_options)
         /\ \A k \in Numbers :
              /\ FallbackCalled(k) => PrimaryRaised(k)
              /\ (PrimaryRaised(k) /\ ~(pc = "fallback" /\ reel_number = k))
                   => FallbackCalled(k)
    /\ \A k \in Numbers :
         /\ Cardinality(CallsOf(k, "primary")) <= 1
         /\ Cardinality(CallsOf(k, "fallback")) <= 1
         /\ \A c, d \in AllCallsOf(k) : c # d => calls[c].agent # calls[d].agent

\* With a "downloader" value that names neither agent: a finished run whose
\* first item went to the fallback and whose second did not.
C5_Witness ==
    /\ pc = "done"
    /\ HasFallback(variant)
    /\ Get(download_options, "downloader", "") = "gallery-dl"
    /\ Len(reel_items) >= 2
    /\ FallbackCalled(1)
    /\ PrimaryReturned(2) /\ ~FallbackCalled(2)

\* No signal carries the url of an item the worker has not started.
UnstartedItemsSilent ==
    \A k \in Numbers :
      ~Started(k) => \A j \in DOMAIN events : events[j].url # reel_items[k]

\* What a step of the worker may do, whether or not a stop was requested.
CooperativeSteps ==
    /\ (pc = "loop" /\ ~is_running /\ pc' # pc) =>
         (pc' = "returned" /\ events' = events /\ calls' = calls)
    /\ (pc = "returned" /\ pc' # pc) =>
         (calls' = calls /\ events' = Append(events, Finished))
    /\ (pc = "primary" /\ pc' # pc) =>
         /\ Len(calls') = Len(calls) + 1
         /\ calls'[Len(calls')].role = "primary"
         /\ (HasFallback(variant) /\ calls'[Len(calls')].raised)
              => pc' = "fallback"
    /\ (pc = "fallback" /\ pc' # pc) =>
         /\ Len(calls') = Len(calls) + 1
         /\ calls'[Len(calls')].role = "fallback"
    /\ (InItem(pc) /\ ~InItem(pc')) =>
         /\ pc' = "loop"
         /\ CountOf(events', "completed", ItemUrl)
              + CountOf(events', "error", ItemUrl) = 1

\* C6: a requested stop takes effect at the loop head only: there the worker
\* leaves the loop with no further agent call and no further signal but
\* finished(), so the items not yet started stay without any signal; inside
\* an item every step is taken as if no stop had been requested: the
\* fallback follows a failed primary and the item is left only with its one
\* terminal event.
C6_StopOnlyBetweenItems ==
    /\ []UnstartedItemsSilent
    /\ [][CooperativeSteps]_vars

\* A stop was requested while an item was in progress; its primary has
\* failed since, its fallback has been tried and has returned, and another
\* item is waiting behind it.
C6_Witness ==
    /\ ~is_running
    /\ pc = "post"
    /\ attempt = "fallback"
    /\ reel_number < Len(reel_items)

\* The position in the queue of the item with that url.
ItemIndex(url) == CHOOSE k \in Numbers : reel_items[k] = url

\* C7: the k-th item is handed to the agents with number k; agent calls and
\* item signals follow the order of the queue, so every signal of item k
\* precedes every signal of item k+1.
C7_QueueOrder ==
    /\ \A c \in DOMAIN calls :
         /\ calls[c].n \in Numbers
         /\ calls[c].url = reel_items[calls[c].n]
    /\ \A a, b \in DOMAIN calls : a < b => calls[a].n <= calls[b].n
    /\ \A a, b \in DOMAIN events :
         (a < b /\ events[a].url # "" /\ events[b].url # "")
           => ItemIndex(events[a].url) <= ItemIndex(events[b].url)

\* A finished run in which both agents failed on the first item and the
\* second item was handed to an agent afterwards.
C7_Witness ==
    /\ pc = "done"
    /\ Len(reel_items) >= 2
    /\ PrimaryRaised(1) /\ FallbackRaised(1)
    /\ Started(2)
    /\ CompletedCount(reel_items[2]) = 1

AllErrors == Cardinality({j \in DOMAIN events : events[j].kind = "error"})
EmptyUrlErrors == CountOf(events, "error", "")

\* C8: when a setup step raised, the run has emitted exactly one error
\* event, with an empty url, has invoked no agent, has emitted nothing that
\* carries an item's url, and run() has returned.
C8_SetupFailureIsFatal ==
    setup_raised # "none" =>
      /\ AllErrors = 1
      /\ EmptyUrlErrors = 1
      /\ calls = <<>>
      /\ \A j \in DOMAIN events : events[j].url = ""
      /\ pc \in {"returned", "done"}

\* The downloader setup raised and the run is over.
C8_Witness ==
    /\ setup_raised = "instaloader"
    /\ pc = "done"
    /\ EmptyUrlErrors = 1

\* The agent calls that raised for the item numbered k.
RaisedCalls(k) == Cardinality({c \in AllCallsOf(k) : calls[c].raised})

\* The progress events at 0 percent that carry that url: the one that opens
\* the item and the ones that announce a fallback.
ZeroProgress(url) ==
    Cardinality({j \in DOMAIN events : /\ events[j].kind = "progress"
                                       /\ events[j].url = url
                                       /\ events[j].pct = 0})

\* C9: once setup is through, no error event with an empty url is emitted;
\* every exception of an agent call has become either a fallback
\* announcement or an error event with the item's url; and run() returns
\* only when the queue is exhausted or a stop was requested.
C9_ItemErrorsStayItemLevel ==
    /\ loader => EmptyUrlErrors = 0
    /\ \A k \in Numbers :
         Started(k) =>
           RaisedCalls(k)
             = ErrorCount(reel_items[k]) + (ZeroProgress(reel_items[k]) - 1)
    /\ (loader /\ pc = "returned") =>
         (Position(reel_number) > Len(reel_items) \/ ~is_running)

\* Both agents raised for the first item, and the worker is on the second.
C9_Witness ==
    /\ loader
    /\ Len(reel_items) >= 2
    /\ PrimaryRaised(1) /\ FallbackRaised(1)
    /\ ErrorCount(reel_items[1]) = 1
    /\ Started(2)

\* C10: every run emits finished(), once, and finished() is the last signal
\* of the run.
C10_FinishedOnceAndLast ==
    /\ <>(FinishedCount = 1)
    /\ [](FinishedCount <= 1)
    /\ [](FinishedCount = 1 => events[Len(events)] = Finished)

\* finished() after a stop was honoured with an item still waiting.
C10_Witness ==
    /\ pc = "done"
    /\ FinishedCount = 1
    /\ setup_raised = "none"
    /\ ~is_running
    /\ Position(reel_number) <= Len(reel_items)

\* C18: when both agents raised for an item, its one error event reads
\* "Both downloaders failed: P | F" with P the message of the primary's
\* exception and F the message of the fallback's, in that order.
C18_BothFailedMessage ==
    \A k \in Numbers :
      (PrimaryRaised(k) /\ FallbackRaised(k)) =>
        /\ ErrorCount(reel_items[k]) = 1
        /\ \A p \in CallsOf(k, "primary"), f \in CallsOf(k, "fallback") :
             \A j \in DOMAIN events :
               (events[j].kind = "error" /\ events[j].url = reel_items[k]) =>
                 events[j].msg = "Both downloaders failed: " \o calls[p].msg
                                   \o " | " \o calls[f].msg

\* Both agents raised for the first item, with different messages, the
\* external tool first.
C18_Witness ==
    /\ PrimaryRaised(1) /\ FallbackRaised(1)
    /\ ErrorCount(reel_items[1]) = 1
    /\ \E p \in CallsOf(1, "primary") :
         /\ calls[p].agent = "yt-dlp"
         /\ calls[p].msg = "yt-dlp exited with an error"

-----------------------------------------------------------------------------
(* One item in detail: reading the history *)

\* The payloads of the completion events emitted so far.
Payloads ==
    {events[j].payload : j \in {i \in DOMAIN events : events[i].kind = "completed"}}

Announced(status) == \E j \in DOMAIN events : events[j].msg = status

\* The worker tried to load the speech model and has none.
LoadRaised == Announced("Loading Whisper model...") /\ ~whisper_model

\* C11: when the load of the speech model raised, the run goes on without
\* an error event for it, the item is handed to its agent, the transcriber
\* is never called and no completion payload has a transcript or a
\* transcript_path key.
C11_LoadFailureDowngrades ==
    LoadRaised =>
      /\ setup_raised # "session"
      /\ setup_raised = "none" => EmptyUrlErrors = 0
      /\ (setup_raised = "none" /\ pc \in {"returned", "done"})
           => \A k \in Numbers : Started(k)
      /\ transcribe_calls = 0
      /\ ~Announced("Transcribing audio...")
      /\ \A p \in Payloads :
           "transcript" \notin DOMAIN p /\ "transcript_path" \notin DOMAIN p

\* The load raised, the run is over and the item has completed.
C11_Witness ==
    /\ LoadRaised
    /\ pc = "done"
    /\ Payloads # {}
    /\ Get(download_options, "audio", TRUE)

\* Where in `events` the first signal with that status text is (0: nowhere).
FirstAnnounced(status) ==
    IF Announced(status)
      THEN CHOOSE j \in DOMAIN events :
             /\ events[j].msg = status
             /\ \A i \in DOMAIN events : events[i].msg = status => j <= i
      ELSE 0

CompletedAt == {j \in DOMAIN events : events[j].kind = "completed"}

\* What holds of the transcriber's calls in every state.
TranscriberCalledInTime ==
    /\ transcribe_calls <= 1
    /\ ~Get(download_options, "transcribe", FALSE) =>
         transcribe_calls = 0 /\ ~Announced("Transcribing audio...")
    /\ \A j \in CompletedAt :
         /\ events[j].payload = result
         /\ FirstAnnounced("Transcribing audio...") < j
         /\ transcribe_calls = 1 => "transcript" \in DOMAIN events[j].payload
         /\ TranscriptionOn(download_options, whisper_model) =>
              Announced("Transcribing audio...")
         /\ (variant = "core" /\ Announced("Transcribing audio...")) =>
              FirstAnnounced("Completed")
                < FirstAnnounced("Transcribing audio...")

\* A step in which the transcriber is called: no completion event is out
\* yet, and in the two-agent worker the agent has returned.
TranscriberStep ==
    transcribe_calls' # transcribe_calls =>
      /\ transcribe_calls' = transcribe_calls + 1
      /\ CompletedAt = {}
      /\ variant = "core" => (pc = "post" /\ PrimaryReturned(reel_number))
      /\ "transcript" \in DOMAIN result'

\* C12: with the option set and a model loaded, the transcription post-step
\* of an item whose agent succeeded runs after the agent has returned and
\* before the completion event; the transcriber is called at most once and
\* what it produced is in the payload when the completion event is emitted;
\* without the option the transcriber is never called.
C12_TranscriptionBeforeCompletion ==
    /\ []TranscriberCalledInTime
    /\ [][TranscriberStep]_vars

\* A completed item of the two-agent worker whose transcript was written
\* from temporarily extracted audio.
C12_Witness ==
    /\ variant = "core"
    /\ pc = "done"
    /\ transcribe_calls = 1
    /\ \E p \in Payloads :
         "transcript_path" \in DOMAIN p /\ "audio_path" \notin DOMAIN p

\* The transcription post-step of the item has returned.
PostStepReturned == DOMAIN post_outcome # {} /\ pc # "post"

\* The post-step tried to extract audio into the temporary file.
TempExtractionTried ==
    DOMAIN post_outcome # {} /\ post_outcome.extract # "skipped"

\* C13 (as stated): once the post-step has returned there is no
\* temp_audio<N>.mp3 in the item's folder, however the temporary extraction
\* and the transcription went (os.remove itself not failing), and the
\* temporary extraction is tried only for a result without audio_path.
C13_Original ==
    /\ (PostStepReturned /\ post_outcome.remove # "oserror")
         => TempAudioFile(FirstNumber) \notin files
    /\ (TempExtractionTried /\ pc \in {"emit", "loop", "returned", "done"})
         => "audio_path" \notin DOMAIN result

\* The model call or the writing of the transcript file raised.
TranscriptionFailed ==
    /\ DOMAIN post_outcome # {}
    /\ post_outcome.transcribe \in {"model_raise", "write_raise"}

\* C14: a failure inside the transcription does not fail the item: the
\* agent call has returned, the item gets no error event and gets its
\* completion event, the transcript of the result is the marker
\* "Transcription failed: <reason>", and a payload has transcript_path only
\* when the model call succeeded and the transcript file was written.
C14_TranscriptionIsBestEffort ==
    /\ TranscriptionFailed =>
         /\ PrimaryReturned(1)
         /\ pc \in {"post", "emit", "loop", "returned", "done"}
         /\ ErrorCount(reel_items[1]) = 0
         /\ pc \in {"loop", "returned", "done"}
              => CompletedCount(reel_items[1]) = 1
         /\ "transcript_path" \notin DOMAIN result
         /\ \E reason \in {"model error", "write error"} :
              result["transcript"] = "Transcription failed: " \o reason
    /\ \A p \in Payloads :
         /\ "transcript_path" \in DOMAIN p =>
              /\ post_outcome.transcribe = "ok"
              /\ p["transcript_path"] \in files
         /\ TranscriptionFailed => p = result

\* A completed item whose transcript file could not be written.
C14_Witness ==
    /\ TranscriptionFailed
    /\ post_outcome.transcribe = "write_raise"
    /\ pc = "done"
    /\ CompletedCount(reel_items[1]) = 1

\* What a stage of the agent call did ("skipped" for a stage the agent
\* does not have).
Stage(name) == Get(agent_outcome, name, "skipped")

\* The agent got its video, and the thumbnail or the caption stage failed.
ThumbnailOrCaptionFailed ==
    /\ Stage("video") = "ok"
    /\ Stage("meta") # "raise"
    /\ \/ Stage("thumbnail") \in {"raise", "no_attribute"}
       \/ Stage("caption") = "raise"

\* C15 (as stated): when the thumbnail or the caption stage fails after the
\* video stage succeeded, the agent does not raise, the item completes, and
\* the payload lacks only the key of the stage that failed.
C15_Original ==
    ThumbnailOrCaptionFailed =>
      /\ PrimaryReturned(1)
      /\ ErrorCount(reel_items[1]) = 0
      /\ pc \in {"loop", "returned", "done"} => CompletedCount(reel_items[1]) = 1
      /\ \A p \in Payloads :
           /\ "thumbnail_path" \in DOMAIN p <=> Stage("thumbnail") = "ok"
           /\ "caption_path" \in DOMAIN p <=> Stage("caption") = "ok"

\* C16 (as stated): a successful result has video_path exactly when the
\* video option is set; with the option off and audio or transcribe on, the
\* video file is written all the same.
C16_Original ==
    (PrimaryReturned(1) /\ pc \in {"post", "emit"}) =>
      /\ "video_path" \in DOMAIN result
           <=> Get(download_options, "video", FALSE)
      /\ ( /\ ~Get(download_options, "video", FALSE)
           /\ \/ Get(download_options, "audio", FALSE)
              \/ Get(download_options, "transcribe", FALSE) )
           => VideoFile(FirstNumber) \in files

\* The keys of a payload that name a file, with the option and the stage
\* they belong to.
PathKeys ==
    { [key |-> "thumbnail_path", option |-> "thumbnail", stage |-> "thumbnail"],
      [key |-> "caption_path", option |-> "caption", stage |-> "caption"],
      [key |-> "audio_path", option |-> "audio", stage |-> "audio"],
      [key |-> "transcript_path", option |-> "transcribe", stage |-> "transcribe"] }

StageOf(name) ==
    IF name = "transcribe" THEN Get(post_outcome, name, "skipped")
                           ELSE Stage(name)

\* C17: every completion payload has folder_path, and has thumbnail_path,
\* caption_path, audio_path or transcript_path only if the option of that
\* stage was set and the stage wrote the file the key names.
C17_PayloadKeysMeanFiles ==
    \A p \in Payloads :
      /\ "folder_path" \in DOMAIN p
      /\ \A k \in PathKeys :
           k.key \in DOMAIN p =>
             /\ Get(download_options, k.option, FALSE)
             /\ StageOf(k.stage) = "ok"
             /\ p[k.key] \in files

\* A payload with all four keys.
C17_Witness ==
    /\ pc = "done"
    /\ \E p \in Payloads : \A k \in PathKeys : k.key \in DOMAIN p


\* ---------------------------------------------------------------------------
\* The shortcode of a url
\* ---------------------------------------------------------------------------

\* A url is a string; what _extract_shortcode looks at are its "/" and "?",
\* the words "reel" and "p" between two "/", and everything else.  A url is
\* modelled as the sequence of these pieces, "a" standing for any other
\* text: "/reel/" occurs in the string exactly where <<"/", "reel", "/">>
\* occurs in the sequence.
UrlPieces == {"/", "?", "reel", "p", "a"}
Urls == UNION {[1..n -> UrlPieces] : n \in 0..MaxUrlLen}

ReelMarker == <<"/", "reel", "/">>
PostMarker == <<"/", "p", "/">>

\* sep occurs in s at position i.
OccursAt(s, sep, i) ==
    /\ i >= 1
    /\ i + Len(sep) - 1 <= Len(s)
    /\ SubSeq(s, i, i + Len(sep) - 1) = sep

\* Python's `sep in s`.
Contains(s, sep) == \E i \in 1..Len(s) : OccursAt(s, sep, i)

\* Python's s.split(sep): the parts of s between the occurrences of sep,
\* found from the left; a string without sep is its own only part.
RECURSIVE Split(_, _)
Split(s, sep) ==
    IF s = <<>> THEN << <<>> >>
    ELSE IF OccursAt(s, sep, 1)
         THEN << <<>> >> \o Split(SubSeq(s, Len(sep) + 1, Len(s)), sep)
         ELSE LET rest == Split(Tail(s), sep)
              IN  << <<Head(s)>> \o rest[1] >> \o Tail(rest)

\* url.split(marker)[1].split("/")[0].split("?")[0]; Python counts the
\* parts from 0.
AfterMarker(url, marker) ==
    Split(Split(Split(url, marker)[2], <<"/">>)[1], <<"?">>)[1]

\* _extract_shortcode.  No statement of the try block can raise once the
\* marker is known to occur: split then yields at least two parts.
extract_shortcode(url) ==
    IF Contains(url, ReelMarker) THEN Some(AfterMarker(url, ReelMarker))
    ELSE IF Contains(url, PostMarker) THEN Some(AfterMarker(url, PostMarker))
    ELSE None

\* No worker thread exists.
NoWorker(v) ==
    /\ variant = v
    /\ download_options = <<>>
    /\ reel_items = <<>>
    /\ is_running = FALSE
    /\ whisper_model = FALSE
    /\ session_folder = FALSE
    /\ loader = FALSE
    /\ pc = "no_thread"
    /\ reel_number = FirstNumber
    /\ attempt = "primary"
    /\ primary_error = ""
    /\ setup_raised = "none"
    /\ events = <<>>
    /\ calls = <<>>
    /\ delivered = 0
    /\ ui_finished = FALSE
    /\ queue_list = <<>>
    /\ results_text = <<>>
    /\ overall_progress = 0
    /\ running_threads = 0
    /\ ItemIdle

\* One call of _extract_shortcode.
ExtractShortcode ==
    /\ shortcode = NotCalled
    /\ shortcode' = extract_shortcode(shortcode_url)
    /\ UNCHANGED <<runVars, itemVars, shortcode_url, fieldVars, displayVars,
                   running_threads, clockVars, clipVars, retryVars>>

ShortcodeInit ==
    /\ NoWorker("enabled")
    /\ yt_dlp_exe = TRUE
    /\ reel_queue = <<>>
    /\ url_input = <<>>
    /\ notice = ""
    /\ ClockIdle
    /\ ClipIdle
    /\ RetryIdle
    /\ shortcode_url \in Urls
    /\ shortcode = NotCalled

ShortcodeNext == ExtractShortcode

ShortcodeSpec == ShortcodeInit /\ [][ShortcodeNext]_vars

\* ---------------------------------------------------------------------------
\* The shortcode of a url: what was returned
\* ---------------------------------------------------------------------------

\* An identifier: a non-empty text without "/" and without "?".
Identifiers ==
    UNION {[1..n -> UrlPieces \ {"/", "?"}] : n \in 1..(MaxUrlLen - 4)}

\* The url contains marker, id, "/" in a row.
HasForm(url, marker, id) == Contains(url, marker \o id \o <<"/">>)

\* C19: for every url containing "/reel/<id>/" or "/p/<id>/", the
\* identifier being non-empty and without "/" or "?", _extract_shortcode
\* returns exactly <id>; for a url containing neither "/reel/" nor "/p/" it
\* returns None.
C19_Original ==
    shortcode.called =>
        /\ \A id \in Identifiers :
             \/ HasForm(shortcode_url, ReelMarker, id)
             \/ HasForm(shortcode_url, PostMarker, id)
             => shortcode = Some(id)
        /\ ~Contains(shortcode_url, ReelMarker)
             /\ ~Contains(shortcode_url, PostMarker)
             => shortcode = None


\* ---------------------------------------------------------------------------
\* The queue of the window
\* ---------------------------------------------------------------------------

\* What the user types into the url field: a text made of blanks, the urls
\* of two reels and a text that is no url, in pieces.
NoUrl == "no url"
Paddings == {<<>>, <<" ">>}
Bodies == {<<>>, <<Url(1)>>, <<Url(2)>>, <<NoUrl>>, <<NoUrl, Url(1)>>,
           <<Url(1), " ", Url(2)>>}
Texts == {l \o b \o t : l \in Paddings, b \in Bodies, t \in Paddings}

\* str.strip(): the text without its leading and trailing blanks.
RECURSIVE lstrip(_)
lstrip(t) == IF t # <<>> /\ Head(t) = " " THEN lstrip(Tail(t)) ELSE t

RECURSIVE rstrip(_)
rstrip(t) ==
    IF t # <<>> /\ t[Len(t)] = " " THEN rstrip(SubSeq(t, 1, Len(t) - 1)) ELSE t

strip(t) == rstrip(lstrip(t))

\* The string the pieces make up.
RECURSIVE Joined(_)
Joined(t) == IF t = <<>> THEN "" ELSE Head(t) \o Joined(Tail(t))

\* urlparse(url).netloc: a text that starts with a url has the host of
\* that url, whatever follows; a text that starts with words and blanks has
\* no scheme, and so no host.
netloc(t) ==
    IF t # <<>> /\ Head(t) \in {Url(1), Url(2)} THEN "www.instagram.com" ELSE ""

\* "/reel/" in url or "/p/" in url
HasMarker(t) == \E i \in 1..Len(t) : t[i] \in {Url(1), Url(2)}

\* _is_valid_instagram_url
is_valid_instagram_url(t) ==
    /\ netloc(t) \in {"instagram.com", "www.instagram.com"}
    /\ HasMarker(t)

\* The duplicate check of add_to_queue, comparing with the last item only.
AlreadyQueued_last_only(queue, url) ==
    queue # <<>> /\ queue[Len(queue)].url = url

\* for item in self.reel_queue: if item.url == url
AlreadyQueued(queue, url) == \E i \in 1..Len(queue) : queue[i].url = url

\* ThreadIsRunning that never finds a running worker.
ThreadIsRunning_never == FALSE

\* self.download_thread and self.download_thread.isRunning()
ThreadIsRunning == pc \notin {"no_thread", "done"}

\* The user edits the url field.
TypeUrl ==
    /\ \E t \in Texts : url_input' = t
    /\ UNCHANGED <<runVars, itemVars, asideVars, notice, displayVars,
                   running_threads>>

\* add_to_queue
add_to_queue ==
    LET text == strip(url_input)
        url == Joined(text)
    IN  /\ IF url = ""
           THEN UNCHANGED <<reel_queue, queue_list, url_input, notice>>
           ELSE IF ~is_valid_instagram_url(text)
           THEN /\ notice' = "Invalid URL"
                /\ UNCHANGED <<reel_queue, queue_list, url_input>>
           ELSE IF AlreadyQueued(reel_queue, url)
           THEN /\ notice' = "Duplicate URL"
                /\ UNCHANGED <<reel_queue, queue_list, url_input>>
           ELSE /\ reel_queue' = Append(reel_queue, NewItem(url))
                /\ queue_list' = Append(queue_list, NewRow(url))
                /\ url_input' = <<>>
                /\ notice' = "Added to queue"
        /\ UNCHANGED <<workerVars, is_running, delivered, ui_finished,
                       yt_dlp_exe, itemVars, asideVars, results_text,
                       overall_progress, running_threads>>

\* clear_queue that does not look at the worker.
clear_queue_always ==
    /\ reel_queue' = <<>>
    /\ queue_list' = <<>>
    /\ results_text' = <<>>
    /\ overall_progress' = 0
    /\ notice' = "Queue cleared"
    /\ UNCHANGED <<workerVars, is_running, delivered, ui_finished,
                   yt_dlp_exe, itemVars, asideVars, url_input,
                   running_threads>>

\* clear_queue
clear_queue ==
    /\ IF ThreadIsRunning
       THEN /\ notice' = "Cannot clear queue while downloading"
            /\ UNCHANGED <<reel_queue, displayVars>>
       ELSE /\ reel_queue' = <<>>
            /\ queue_list' = <<>>
            /\ results_text' = <<>>
            /\ overall_progress' = 0
            /\ notice' = "Queue cleared"
    /\ UNCHANGED <<workerVars, is_running, delivered, ui_finished,
                   yt_dlp_exe, itemVars, asideVars, url_input,
                   running_threads>>

\* What the worker object holds, apart from its arguments, and what the
\* history tells of it.
WorkerFields ==
    <<is_running, whisper_model, session_folder, loader, pc, reel_number,
      attempt, primary_error, setup_raised, events, calls, delivered>>

\* The option dicts start_download builds from the check boxes and the
\* combo box.
WindowOptions ==
    {f @@ [downloader |-> d] : f \in FlagProfiles, d \in {"Instaloader", "yt-dlp"}}

\* start_download: a new worker is built from a copy of the queue and
\* started, unless the queue is empty or a worker is running. `events` and
\* `calls` go on as the history of the new worker: the signals of the
\* worker before it that the window has handled are dropped, those it has
\* not handled yet stay queued.
\* SnapshotOf that leaves out the items that are no longer pending.
SnapshotOf_pending_only(queue) ==
    LET StillPending(item) == item.status = "Pending"
        left == SelectSeq(queue, StillPending)
    IN  [k \in 1..Len(left) |-> left[k].url]

\* ReelDownloader(self.reel_queue.copy(), options): the items of the queue
\* as they stand, of which the worker reads the url.
SnapshotOf(queue) == [k \in 1..Len(queue) |-> queue[k].url]

start_download ==
    /\ IF reel_queue = <<>>
       THEN /\ notice' = "Empty Queue"
            /\ UNCHANGED <<download_options, reel_items, WorkerFields,
                           running_threads>>
       ELSE IF ThreadIsRunning
       THEN /\ notice' = "Download is already in progress"
            /\ UNCHANGED <<download_options, reel_items, WorkerFields,
                           running_threads>>
       ELSE /\ \E opts \in WindowOptions : download_options' = opts
            /\ reel_items' = SnapshotOf(reel_queue)
            /\ is_running' = TRUE
            /\ whisper_model' = FALSE
            /\ session_folder' = FALSE
            /\ loader' = FALSE
            /\ pc' = "setup_session"
            /\ reel_number' = FirstNumber
            /\ attempt' = "primary"
            /\ primary_error' = ""
            /\ setup_raised' = "none"
            /\ events' = SubSeq(events, delivered + 1, Len(events))
            /\ calls' = <<>>
            /\ delivered' = 0
            /\ running_threads' = running_threads + 1
            /\ notice' = "Download started..."
    /\ UNCHANGED <<variant, reel_queue, ui_finished, yt_dlp_exe, itemVars,
                   asideVars, url_input, displayVars>>

\* The worker thread of the window runs to its end; what it does with its
\* items is the subject of the first specification.
WorkerEnds ==
    /\ ThreadIsRunning
    /\ pc' = "done"
    /\ running_threads' = running_threads - 1
    /\ UNCHANGED <<variant, download_options, reel_items, is_running,
                   whisper_model, session_folder, loader, reel_number,
                   attempt, primary_error, setup_raised, events, calls,
                   delivered, reel_queue, ui_finished, yt_dlp_exe,
                   itemVars, asideVars, fieldVars, displayVars>>

QueueInit ==
    /\ NoWorker("disabled")
    /\ yt_dlp_exe = TRUE
    /\ reel_queue = <<>>
    /\ EnvIdle

QueueNext ==
    \/ TypeUrl
    \/ add_to_queue
    \/ clear_queue
    \/ start_download
    \/ WorkerEnds

QueueSpec == QueueInit /\ [][QueueNext]_vars

\* ---------------------------------------------------------------------------
\* The queue of the window: what it holds
\* ---------------------------------------------------------------------------

\* No two of the urls are the same.
PairwiseDifferent(urls) ==
    \A i, j \in 1..Len(urls) : urls[i] = urls[j] => i = j

QueuedUrls == [k \in 1..Len(reel_queue) |-> reel_queue[k].url]

\* A click on "add" with a url in the field that is already queued.
DuplicateAdd ==
    /\ add_to_queue
    /\ AlreadyQueued(reel_queue, Joined(strip(url_input)))

\* C20: whatever add_to_queue and clear_queue calls were made, no two items
\* of the window's queue have the same url, and so no two items handed to a
\* worker; add_to_queue with a url that is already queued leaves the queue
\* as it is.
C20_NoDuplicateInQueue ==
    /\ [](PairwiseDifferent(QueuedUrls) /\ PairwiseDifferent(reel_items))
    /\ [][DuplicateAdd => reel_queue' = reel_queue]_vars

\* A queued url was typed again, with blanks around it, and refused, while
\* a worker has the queue.
C20_Witness ==
    /\ notice = "Duplicate URL"
    /\ url_input # strip(url_input)
    /\ Len(reel_queue) >= 2
    /\ ThreadIsRunning
    /\ Len(reel_items) >= 2


\* ---------------------------------------------------------------------------
\* The items of the window's queue
\* ---------------------------------------------------------------------------

\* The four values the status of an item is meant to take.
StatusValues == {"Pending", "Downloading", "Completed", "Error"}

\* C24: in every reachable state of the window's queue the status of each
\* item is one of Pending, Downloading, Completed, Error.
C24_Original ==
    \A k \in DOMAIN reel_queue : reel_queue[k].status \in StatusValues


\* What a percentage may be.
Percent == 0..100

\* C25: every progress event emitted by the worker or by an agent carries
\* a percentage between 0 and 100, and so the progress of every item and
\* the overall progress computed from the queue stay between 0 and 100
\* whatever events have been handled.
C25_ProgressWithinRange ==
    /\ \A j \in DOMAIN events :
         events[j].kind = "progress" => events[j].pct \in Percent
    /\ \A k \in DOMAIN reel_queue : reel_queue[k].progress \in Percent
    /\ overall_progress \in Percent

\* Two items, one done and one under way, and the bar between the two.
C25_Witness ==
    /\ Len(reel_queue) = 2
    /\ \E k \in DOMAIN reel_queue : reel_queue[k].progress = 100
    /\ \E k \in DOMAIN reel_queue : reel_queue[k].progress \in 1..99
    /\ overall_progress \in 51..99


\* ---------------------------------------------------------------------------
\* The window and its worker together: urls are queued, the queue is
\* cleared and workers are started while the worker of the window runs and
\* the window handles its signals.
\* ---------------------------------------------------------------------------

\* The user pastes the url of a reel into the url field.
PasteUrl ==
    /\ \E k \in 1..2 : url_input' = <<Url(k)>>
    /\ UNCHANGED <<runVars, itemVars, asideVars, notice, displayVars,
                   running_threads>>

\* The results tab has room for what one more run can add to it: an entry
\* for each signal still queued, one for each item, and one for an error of
\* the thread.
RoomForResults ==
    Len(results_text) + (Len(events) - delivered) + Len(reel_queue) + 1
        <= MaxResults

StartWorker ==
    /\ reel_queue # <<>> /\ ~ThreadIsRunning => RoomForResults
    /\ start_download

WindowInit ==
    /\ NoWorker("disabled")
    /\ yt_dlp_exe \in BOOLEAN
    /\ reel_queue = <<>>
    /\ EnvIdle

WindowNext ==
    \/ PasteUrl
    \/ add_to_queue
    \/ clear_queue
    \/ StartWorker
    \/ Worker
    \/ Window

WindowSpec == WindowInit /\ [][WindowNext]_vars


\* ---------------------------------------------------------------------------
\* The window and its worker together: what the handlers leave alone
\* ---------------------------------------------------------------------------

\* A run is active: a worker thread has been started and has not finished.
RunActive == running_threads > 0

\* A step that empties a queue that held something.
QueueCleared == reel_queue # <<>> /\ reel_queue' = <<>>

\* C21: clear_queue called while a run is active leaves the queue, the
\* queue list and the results as they are; the queue is only ever cleared
\* when no run is active.
C21_ClearBlockedDuringRun ==
    /\ [][clear_queue /\ RunActive
            => UNCHANGED <<reel_queue, queue_list, results_text>>]_vars
    /\ [][QueueCleared => ~RunActive]_vars

\* clear_queue was refused while the worker was at an item, with a result
\* already shown.
C21_Witness ==
    /\ notice = "Cannot clear queue while downloading"
    /\ RunActive
    /\ pc \in {"primary", "fallback", "post"}
    /\ reel_queue # <<>>
    /\ results_text # <<>>

\* The urls the agents have been called with.
CalledUrls == {calls[j].url : j \in DOMAIN calls}
SnapshotUrls == {reel_items[k] : k \in DOMAIN reel_items}

\* The run went through its loop without being stopped.
LoopCompleted ==
    pc \in {"returned", "done"} /\ setup_raised = "none" /\ is_running

\* A step that changes the item at position k of the queue.
ItemWritten(k) ==
    /\ k \in DOMAIN reel_queue
    /\ k \in DOMAIN reel_queue'
    /\ reel_queue'[k] # reel_queue[k]

\* The step is a slot handling a signal that carries the url of item k.
SlotFor(k) ==
    /\ SignalQueued
    /\ delivered' = delivered + 1
    /\ NextSignal.url = reel_queue[k].url
    /\ reel_queue'[k].url = reel_queue[k].url

\* C22: the worker processes exactly the items that were queued when
\* start_download was called. A url queued while the run is active is not
\* processed by that run; no step of the worker thread writes an item; an
\* item is only ever written by a slot of the window handling a signal
\* with the url of that item.
C22_WorkerProcessesSnapshot ==
    /\ [](CalledUrls \subseteq SnapshotUrls)
    /\ [](LoopCompleted => CalledUrls = SnapshotUrls)
    /\ [][add_to_queue => UNCHANGED reel_items]_vars
    /\ [][Worker => UNCHANGED <<reel_queue, reel_items>>]_vars
    /\ [][\A k \in 1..Len(reel_queue) : ItemWritten(k) => SlotFor(k)]_vars

\* A second url was queued after the worker was started and before its
\* thread finished; the run is over and has called the agents for the first
\* url only.
C22_Witness ==
    /\ pc = "returned"
    /\ LoopCompleted
    /\ notice = "Added to queue"
    /\ Len(reel_items) = 1
    /\ Len(reel_queue) = 2
    /\ CalledUrls = {reel_queue[1].url}
    /\ reel_queue[2].status = "Pending"

\* start_download with nothing to start: the queue is empty or a worker is
\* running.
StartRefused ==
    /\ start_download
    /\ reel_queue = <<>> \/ RunActive

\* C23: at most one worker thread is running at any time. start_download
\* called while a run is active builds and starts no worker, and neither
\* does start_download on an empty queue.
C23_OneWorkerAtATime ==
    /\ [](running_threads <= 1)
    /\ [][StartRefused
            => UNCHANGED <<running_threads, reel_items, download_options,
                           WorkerFields>>]_vars

\* start_download was refused while the worker was at an item.
C23_Witness ==
    /\ notice = "Download is already in progress"
    /\ running_threads = 1
    /\ pc \in {"primary", "fallback", "post"}


\* ---------------------------------------------------------------------------
\* The session directory of a run
\* ---------------------------------------------------------------------------

\* What is left alone by the specifications of single functions.
mainVars == <<runVars, itemVars, fieldVars, displayVars, running_threads>>

\* Time passes.
Tick ==
    /\ clock < MaxClock
    /\ clock' = clock + 1
    /\ UNCHANGED <<session_dirs, mainVars, codeVars, clipVars, retryVars>>

\* _setup_session of a run that has just been started: mkdir(parents=True,
\* exist_ok=True) makes the directory or finds it there; when it raises, the
\* run ends without a session.
SetupSessionOfRun ==
    /\ Len(session_dirs) < MaxRuns
    /\ \E ok \in BOOLEAN :
         session_dirs' = IF ok THEN Append(session_dirs, SessionDir(clock))
                               ELSE session_dirs
    /\ UNCHANGED <<clock, mainVars, codeVars, clipVars, retryVars>>

RunsInit ==
    /\ NoWorker("core")
    /\ yt_dlp_exe = TRUE
    /\ reel_queue = <<>>
    /\ EnvIdle

RunsNext == Tick \/ SetupSessionOfRun

RunsSpec == RunsInit /\ [][RunsNext]_vars

\* C26: a session directory is made once per run and never used again: any
\* two runs, two runs started within the same second included, have two
\* different session directories.
C26_Original ==
    \A i, j \in DOMAIN session_dirs :
        session_dirs[i] = session_dirs[j] => i = j

\* ---------------------------------------------------------------------------
\* The folders of the items
\* ---------------------------------------------------------------------------

\* The second try block of _process_downloads, with the fallback agent
\* followed stage by stage. What the first agent wrote stays in the folder.
FallbackItem ==
    /\ pc = "fallback"
    /\ LET agent == FallbackAgent(variant, download_options)
       IN  \E r \in AgentRuns(agent, ItemUrl, reel_number, download_options,
                              whisper_model, yt_dlp_exe) :
             LET h == fallback_except(ItemUrl, primary_error, r.msg)
             IN  /\ calls' = Append(calls,
                        [n |-> reel_number, url |-> ItemUrl, agent |-> agent,
                         role |-> "fallback", raised |-> r.raised,
                         msg |-> r.msg,
                         folder |-> Get(r.result, "folder_path", ""),
                         emits |-> r.emits, files |-> r.files,
                         happened |-> r.happened])
                 /\ files' = files \cup r.files
                 /\ agent_outcome' = r.happened
                 /\ IF r.raised
                      THEN /\ events' = events \o r.emits \o h.emits
                           /\ pc' = h.pc
                           /\ reel_number' = IF h.next_item
                                               THEN NextNumber(reel_number)
                                               ELSE reel_number
                           /\ UNCHANGED result
                      ELSE /\ events' = events \o r.emits
                           /\ pc' = "post"
                           /\ result' = r.result
                           /\ UNCHANGED reel_number
    /\ UNCHANGED <<variant, download_options, reel_items, is_running,
                   whisper_model, session_folder, loader, attempt,
                   primary_error, setup_raised>>
    /\ UNCHANGED <<post_outcome, transcribe_calls>>
    /\ UNCHANGED <<uiVars, envVars>>

\* The option dicts of the two-agent workers, with either agent first.
FolderOptions(v) ==
    IF v = "core"
      THEN { f @@ [transcribe |-> t, downloader |-> d] :
               f \in FlagProfiles, t \in BOOLEAN,
               d \in {"Instaloader", "yt-dlp"} }
      ELSE WindowOptions

\* A run of two items by a two-agent worker.
FolderInit ==
    \E v \in {"core", "disabled"} :
      \E opts \in FolderOptions(v), exe \in ExeStates(v) :
        Started_download(v, 2, opts, exe)

FolderNext ==
    \/ SetupSession
    \/ LazyLoadDependencies
    \/ SetupInstaloader
    \/ ProcessNext
    \/ DownloadItem
    \/ FallbackItem
    \/ TranscribeItem
    \/ EmitCompleted
    \/ ThreadFinished

FolderSpec == FolderInit /\ [][FolderNext]_vars

\* The keys of a result that record the path of a file.
FileKeys ==
    {"video_path", "thumbnail_path", "audio_path", "caption_path",
     "transcript_path"}

\* The names a file of an item can have.
FileNames ==
    { stem \o ToString(k) \o ext :
        stem \in {"video", "thumbnail", "audio", "caption", "transcript"},
        k \in 1..Len(reel_items), ext \in {".mp4", ".jpg", ".mp3", ".txt"} }

\* The path names a file directly inside the folder.
Inside(path, folder) == \E name \in FileNames : path = folder \o "/" \o name

\* The folder is a subdirectory of the session directory of the run.
UnderSession(folder) ==
    \E name \in {"reel" \o ToString(k) : k \in 1..Len(reel_items)} :
      folder = SessionDir(clock) \o "/" \o name

\* The completion events, which carry the results.
Completions == {j \in DOMAIN events : events[j].kind = "completed"}

\* The folder the agents were given for the item of that url.
FoldersOf(url) == {calls[j].folder : j \in {i \in DOMAIN calls : calls[i].url = url}}

\* C27: every file path recorded in the result of an item lies inside that
\* item's own folder, a subdirectory of the session directory; the folders
\* of two different items differ; the primary and the fallback attempt of
\* one item are given the same folder and the same sequence number.
C27_PathsInsideOwnFolder ==
    /\ \A j \in Completions :
         LET p == events[j].payload
         IN  /\ "folder_path" \in DOMAIN p
             /\ UnderSession(p.folder_path)
             /\ FoldersOf(events[j].url) = {p.folder_path}
             /\ \A key \in FileKeys \cap DOMAIN p :
                  Inside(p[key], p.folder_path)
             /\ \A i \in Completions :
                  events[i].url # events[j].url =>
                    events[i].payload.folder_path # p.folder_path
    /\ \A i, j \in DOMAIN calls :
         /\ calls[i].url = calls[j].url =>
              /\ calls[i].n = calls[j].n
              /\ calls[i].folder = calls[j].folder
         /\ calls[i].url # calls[j].url =>
              /\ calls[i].n # calls[j].n
              /\ calls[i].folder # calls[j].folder

\* Both items are completed with recorded files, one of them by the
\* fallback agent after the primary agent had raised.
C27_Witness ==
    /\ pc = "done"
    /\ \A k \in DOMAIN reel_items :
         \E j \in Completions :
           /\ events[j].url = reel_items[k]
           /\ Cardinality(FileKeys \cap DOMAIN events[j].payload) >= 3
    /\ \E i, j \in DOMAIN calls :
         /\ calls[i].url = calls[j].url
         /\ calls[i].role = "primary" /\ calls[i].raised
         /\ calls[j].role = "fallback" /\ ~calls[j].raised


\* ---------------------------------------------------------------------------
\* The external tool is missing
\* ---------------------------------------------------------------------------

\* What the yt-dlp agent raises when its executable is not there.
MissingTool == "yt-dlp.exe not found in bin folder"

\* The calls of the yt-dlp agent.
YtDlpCalls == {j \in DOMAIN calls : calls[j].agent = "yt-dlp"}

\* The other call made for the same item, if there is one.
OtherCalls(j) ==
    {i \in DOMAIN calls : calls[i].url = calls[j].url /\ i # j}

\* C28: with the executable absent a call of the yt-dlp agent raises before
\* any subprocess, request, progress event or artifact file, with a message
\* that no failed download raises; when the other agent fails too, the
\* item's error names both failures, the missing tool among them.
C28_MissingToolRaisesAtOnce ==
    \A j \in YtDlpCalls :
      LET c == calls[j]
      IN  /\ ~yt_dlp_exe =>
                /\ c.raised
                /\ c.msg = MissingTool
                /\ c.emits = <<>>
                /\ c.files = {}
                /\ \A stage \in DOMAIN c.happened :
                     c.happened[stage] = "skipped"
          /\ yt_dlp_exe /\ c.raised => c.msg # MissingTool
          /\ \A i \in OtherCalls(j) :
               c.raised /\ calls[i].raised =>
                 LET first == IF i < j THEN calls[i].msg ELSE c.msg
                     second == IF i < j THEN c.msg ELSE calls[i].msg
                 IN  \E e \in DOMAIN events :
                       /\ events[e] = Error(c.url, "Both downloaders failed: "
                                              \o first \o " | " \o second)
                       /\ ~yt_dlp_exe <=> (MissingTool \in {first, second})

\* The yt-dlp agent was called as the primary agent of one item and as the
\* fallback agent of another, without its executable, and both items failed.
C28_Witness ==
    /\ ~yt_dlp_exe
    /\ pc = "done"
    /\ Cardinality(YtDlpCalls) = 2
    /\ \A j \in YtDlpCalls : calls[j].raised /\ OtherCalls(j) # {}
    /\ \A j \in DOMAIN calls : calls[j].raised


\* ---------------------------------------------------------------------------
\* Audio extraction and the clips it opens
\* ---------------------------------------------------------------------------

\* What is not touched by an agent call or an extraction on an item folder.
clipRest == <<variant, download_options, reel_items, is_running,
              whisper_model, session_folder, loader, pc, reel_number, attempt,
              primary_error, setup_raised, delivered, reel_queue, ui_finished,
              yt_dlp_exe, agent_outcome, post_outcome, transcribe_calls,
              codeVars, clockVars, retryVars, fieldVars, displayVars,
              running_threads>>

\* moviepy inside the try block. "open_raise": lazy_import_moviepy or
\* VideoFileClip raises; "no_track": video_clip.audio is None; the others:
\* write_audiofile returns, raises with nothing written, raises with part
\* of the file written. A video without an audio stream has no audio clip
\* to write; one with an audio stream has one.
ClipOutcomes(has_audio) ==
    IF has_audio
      THEN {"ok", "open_raise", "write_raise", "write_raise_partway"}
      ELSE {"no_track", "open_raise"}

\* The same outcomes as far as result and files go.
AudioOutcomeOf(c) ==
    CASE c = "ok" -> "ok"
      [] c = "no_track" -> "no_track"
      [] c = "open_raise" -> "raise"
      [] c = "write_raise" -> "raise"
      [] c = "write_raise_partway" -> "raise_partway"

CloseOutcomes == {"ok", "raise"}

\* A clip after close() has been called on it.
Closed(outcome) == IF outcome = "ok" THEN "closed" ELSE "close_raised"

\* _cleanup_video_resources with one try block around both close calls.
cleanup_video_resources_one_try(audio, video, close_audio, close_video) ==
    [audio |-> IF audio = "open" THEN Closed(close_audio) ELSE audio,
     video |-> IF video = "open" /\ ~(audio = "open" /\ close_audio = "raise")
                 THEN Closed(close_video) ELSE video]

\* _cleanup_video_resources: close() on each clip that is not None, each in
\* a try block of its own.
cleanup_video_resources(audio, video, close_audio, close_video) ==
    [audio |-> IF audio = "open" THEN Closed(close_audio) ELSE audio,
     video |-> IF video = "open" THEN Closed(close_video) ELSE video]

\* The try block of _extract_audio and of _extract_temp_audio: the clips
\* it leaves in video_clip and audio_clip, and whether it raised.
clip_try(outcome) ==
    CASE outcome = "open_raise" ->
           [video |-> "none", audio |-> "none", raised |-> TRUE]
      [] outcome = "no_track" ->
           [video |-> "open", audio |-> "none", raised |-> FALSE]
      [] outcome = "ok" ->
           [video |-> "open", audio |-> "open", raised |-> FALSE]
      [] outcome \in {"write_raise", "write_raise_partway"} ->
           [video |-> "open", audio |-> "open", raised |-> TRUE]

\* extract_clips without the except clause: try ... finally only.
extract_clips_no_except(outcome, close_audio, close_video) ==
    LET body == clip_try(outcome)
        after == cleanup_video_resources(body.audio, body.video,
                                         close_audio, close_video)
    IN  [video |-> after.video, audio |-> after.audio, raised |-> body.raised]

\* try: ... except Exception as e: print(...) finally:
\* _cleanup_video_resources(audio_clip, video_clip). What the try block
\* raises is caught by the except clause.
extract_clips(outcome, close_audio, close_video) ==
    LET body == clip_try(outcome)
        after == cleanup_video_resources(body.audio, body.video,
                                         close_audio, close_video)
    IN  [video |-> after.video, audio |-> after.audio, raised |-> FALSE]

\* An extraction that returns before video_clip and audio_clip exist.
NoClips == [video |-> "none", audio |-> "none", raised |-> FALSE]

\* The option dicts an extraction is run with.
ClipOptions ==
    { [video |-> v, thumbnail |-> FALSE, audio |-> a, caption |-> FALSE] :
        v \in BOOLEAN, a \in BOOLEAN }

\* The agent with the source at hand of each worker.
ClipAgent(v) == IF v = "enabled" THEN "builtin" ELSE "yt-dlp"

\* The agent is called on the empty folder; the video it downloads has an
\* audio stream or has none, and its audio stage, if it runs, goes as
\* moviepy goes.
AgentCall ==
    /\ calls = <<>>
    /\ extractions < MaxExtractions
    /\ \E opts \in ClipOptions, has_audio \in BOOLEAN :
         \E c \in ClipOutcomes(has_audio),
            close_audio \in CloseOutcomes, close_video \in CloseOutcomes :
           \E r \in AgentRuns(ClipAgent(variant), Url(1), reel_number, opts,
                              whisper_model, yt_dlp_exe) :
             LET stage == r.happened.audio
                 ran == stage # "skipped"
                 x == IF ran THEN extract_clips(c, close_audio, close_video)
                             ELSE NoClips
             IN  /\ ran => stage = AudioOutcomeOf(c)
                 /\ calls' = Append(calls,
                        [n |-> reel_number, url |-> Url(1),
                         agent |-> ClipAgent(variant), role |-> "primary",
                         raised |-> r.raised \/ x.raised, msg |-> r.msg,
                         folder |-> Get(r.result, "folder_path", ""),
                         emits |-> r.emits, files |-> r.files,
                         happened |-> r.happened])
                 /\ events' = events \o r.emits
                 /\ result' = r.result
                 /\ files' = r.files
                 /\ video_has_audio' = has_audio
                 /\ video_clip' = IF ran THEN x.video ELSE video_clip
                 /\ audio_clip' = IF ran THEN x.audio ELSE audio_clip
                 /\ extractions' = IF ran THEN extractions + 1 ELSE extractions
                 /\ extract_raised' = (extract_raised \/ x.raised)
    /\ UNCHANGED clipRest

\* One more call of _extract_audio on the folder.
ExtractAudio ==
    /\ extractions < MaxExtractions
    /\ \E opts \in ClipOptions, c \in ClipOutcomes(video_has_audio),
          close_audio \in CloseOutcomes, close_video \in CloseOutcomes :
         LET video_path == Get(result, "video_path", VideoFile(reel_number))
             tried == Get(opts, "audio", TRUE) /\ video_path \in files
             a == extract_audio(result, files, reel_number, opts,
                                AudioOutcomeOf(c))
             x == IF tried THEN extract_clips(c, close_audio, close_video)
                           ELSE NoClips
         IN  /\ result' = a.result
             /\ files' = a.files
             /\ events' = events \o a.emits
             /\ video_clip' = x.video
             /\ audio_clip' = x.audio
             /\ extract_raised' = (extract_raised \/ x.raised)
    /\ extractions' = extractions + 1
    /\ UNCHANGED <<clipRest, calls, video_has_audio>>

\* One more call of _extract_temp_audio on the folder, by a worker that
\* has the transcription post-step.
ExtractTempAudio ==
    /\ variant \in {"core", "enabled"}
    /\ extractions < MaxExtractions
    /\ \E c \in ClipOutcomes(video_has_audio),
          close_audio \in CloseOutcomes, close_video \in CloseOutcomes :
         LET video_path == Get(result, "video_path", VideoFile(reel_number))
             tried == video_path \in files
             t == extract_temp_audio(result, files, reel_number,
                                     AudioOutcomeOf(c))
             x == IF tried THEN extract_clips(c, close_audio, close_video)
                           ELSE NoClips
         IN  /\ files' = t.files
             /\ video_clip' = x.video
             /\ audio_clip' = x.audio
             /\ extract_raised' = (extract_raised \/ x.raised)
    /\ extractions' = extractions + 1
    /\ UNCHANGED <<clipRest, calls, events, result, video_has_audio>>

ClipInit ==
    /\ \E v \in Variants : NoWorker(v)
    /\ yt_dlp_exe = TRUE
    /\ reel_queue = <<>>
    /\ EnvIdle

ClipNext == AgentCall \/ ExtractAudio \/ ExtractTempAudio

ClipSpec == ClipInit /\ [][ClipNext]_vars


\* C29: once an extraction has returned, on whatever path, close() has been
\* called on every clip it opened; a close() that raises on one clip does
\* not keep close() from being called on the other.
C29_ClipsReleased ==
    /\ video_clip # "open"
    /\ audio_clip # "open"
    /\ audio_clip = "close_raised" => video_clip \in {"closed", "close_raised"}
    /\ video_clip = "close_raised" =>
         audio_clip \in {"none", "closed", "close_raised"}

\* An extraction whose audio clip failed to close and whose video clip was
\* closed all the same.
C29_Witness ==
    /\ extractions > 0
    /\ audio_clip = "close_raised"
    /\ video_clip = "closed"

\* The audio files an extraction can write for the item.
AudioFiles == {AudioFile(reel_number), TempAudioFile(reel_number)}

\* A step that runs an extraction on the folder as the agent left it.
ExtractionStep == extractions' > extractions /\ calls' = calls

\* C30: on a video without an audio stream no extraction, however often it
\* is run, writes an audio file, adds audio_path or raises, and each leaves
\* result and folder as they were; no extraction lets an exception out, so
\* an agent whose audio stage ran has returned.
C30_NoTrackIsHarmless ==
    /\ [](~video_has_audio =>
            /\ AudioFiles \cap files = {}
            /\ "audio_path" \notin DOMAIN result)
    /\ [][~video_has_audio /\ ExtractionStep =>
            result' = result /\ files' = files]_vars
    /\ [](~extract_raised)
    /\ [](\A j \in DOMAIN calls :
            calls[j].happened.audio # "skipped" => ~calls[j].raised)

\* The agent returned although moviepy raised in its audio stage on a video
\* without an audio stream, and extraction has been run on the folder again.
C30_Witness ==
    /\ ~video_has_audio
    /\ extractions >= 2
    /\ VideoFile(reel_number) \in files
    /\ calls # <<>>
    /\ calls[1].happened.audio = "raise"
    /\ ~calls[1].raised


\* ---------------------------------------------------------------------------
\* The stage helpers of the single-agent worker
\* ---------------------------------------------------------------------------

StageOrder == <<"video", "thumbnail", "audio", "caption", "transcript">>

\* The calls of the built-in agent whose post lookup succeeded.
LookedUp ==
    {j \in DOMAIN calls :
       calls[j].agent = "builtin" /\ calls[j].happened.lookup = "ok"}

\* C31: for an item whose post lookup succeeded the helpers are called in
\* the order video, thumbnail, audio, caption, transcript, each once,
\* whatever the options; all five when none raises, and none after one
\* that raises.
C31_HelpersOnceInOrder ==
    \A j \in LookedUp :
      LET c == calls[j]
          hs == c.happened.helpers
      IN  /\ Len(hs) \in 1..Len(StageOrder)
          /\ hs = SubSeq(StageOrder, 1, Len(hs))
          /\ ~c.raised => hs = StageOrder
          /\ c.raised =>
               /\ Len(hs) < Len(StageOrder)
               /\ c.happened[hs[Len(hs)]] \in {"raise", "no_attribute"}
               /\ \A k \in 1..(Len(hs) - 1) :
                    c.happened[hs[k]] \notin {"raise", "no_attribute"}

\* All five helpers were called for an item with the thumbnail, audio and
\* caption options off.
C31_Witness ==
    /\ pc = "done"
    /\ ~Get(download_options, "thumbnail", TRUE)
    /\ ~Get(download_options, "audio", TRUE)
    /\ ~Get(download_options, "caption", TRUE)
    /\ \E j \in LookedUp :
         ~calls[j].raised /\ calls[j].happened.helpers = StageOrder


\* ---------------------------------------------------------------------------
\* The video file that is kept only for the audio
\* ---------------------------------------------------------------------------

\* The single-agent worker wrote the video file of the item with the video
\* option off.
UnrequestedVideoWritten ==
    /\ variant = "enabled"
    /\ ~Get(download_options, "video", TRUE)
    /\ \E j \in DOMAIN calls :
         /\ calls[j].agent = "builtin"
         /\ calls[j].n = FirstNumber
         /\ calls[j].happened.video = "ok"

\* C32: in the single-agent worker a video file written with the video
\* option off is never removed: it is in the item's folder from the return
\* of the agent on, whether the item completed or failed, and is not
\* recorded in the result.
C32_UnrequestedVideoStays ==
    UnrequestedVideoWritten =>
      /\ VideoFile(FirstNumber) \in files
      /\ "video_path" \notin DOMAIN result
      /\ \A p \in Payloads : "video_path" \notin DOMAIN p

\* The run is over, with the item completed after its audio was extracted,
\* or failed after the video was written.
C32_Witness ==
    /\ UnrequestedVideoWritten
    /\ pc = "done"
    /\ \/ CompletedCount(reel_items[1]) = 1 /\ "audio_path" \in DOMAIN result
       \/ ErrorCount(reel_items[1]) = 1


\* ---------------------------------------------------------------------------
\* The two-agent worker without transcription, as a function of what the
\* outside did
\* ---------------------------------------------------------------------------

\* The agent calls made for the item numbered k, in the order made.
ItemCalls(k) ==
    LET OfItem(c) == c.n = k
    IN  SelectSeq(calls, OfItem)

\* disabled_item_events without the second try block: the first failure
\* is the item's error.
disabled_item_events_primary_only(url, opts, cs) ==
    LET names == AgentPair(Get(opts, "downloader", "Instaloader"))
        start == Progress(url, 0,
                          "Starting download with " \o names[1] \o "...")
    IN  <<start>> \o cs[1].emits
          \o (IF cs[1].raised
                THEN <<Error(url, "Download failed: " \o cs[1].msg)>>
                ELSE <<Completed(url)>>)

\* One iteration of _process_downloads of the transcription-disabled
\* worker: what it emits when the agent calls cs[1] (primary) and, if that
\* one raised, cs[2] (fallback) go as recorded.
disabled_item_events(url, opts, cs) ==
    LET names == AgentPair(Get(opts, "downloader", "Instaloader"))
        start == Progress(url, 0,
                          "Starting download with " \o names[1] \o "...")
        e == cs[1].msg
        trying == Progress(url, 0,
                           names[1] \o " failed: " \o e
                             \o ". Trying fallback " \o names[2] \o "...")
    IN  IF ~cs[1].raised
          THEN <<start>> \o cs[1].emits \o <<Completed(url)>>
          ELSE <<start>> \o cs[1].emits \o <<trying>> \o cs[2].emits
                 \o (IF cs[2].raised
                       THEN <<Error(url, "Both downloaders failed: " \o e
                                           \o " | " \o cs[2].msg)>>
                       ELSE <<Completed(url)>>)

\* The for loop of that worker from item k on; is_running was found false
\* at the head of the first iteration for which no agent was called.
RECURSIVE disabled_process_downloads(_, _, _)
disabled_process_downloads(items, opts, k) ==
    IF Position(k) > Len(items) \/ ItemCalls(k) = <<>>
      THEN <<>>
      ELSE disabled_item_events(items[Position(k)], opts, ItemCalls(k))
             \o disabled_process_downloads(items, opts, NextNumber(k))

\* run() of that worker, for the setup step that raised, if one did.
disabled_run(items, opts, raised_in) ==
    LET loading == Progress("", 0, "Loading dependencies...")
        setting == Progress("", 10, "Setting up downloader...")
    IN  CASE raised_in = "session" ->
               <<Error("", "Thread error: mkdir failed")>>
          [] raised_in = "instaloader" ->
               <<loading, setting,
                 Error("", "Thread error: Missing instaloader package")>>
          [] raised_in = "none" ->
               <<loading, setting>>
                 \o disabled_process_downloads(items, opts, FirstNumber)

\* The signals of the worker itself: QThread.finished is not one of them.
WorkerSignals ==
    LET OfWorker(ev) == ev.kind # "finished"
    IN  SelectSeq(events, OfWorker)

TranscribeUnset == ~Get(download_options, "transcribe", FALSE)

\* C33: with transcribe unset a finished run of the unified worker has
\* emitted exactly what the transcription-disabled worker emits for the
\* same queue, the same preferred downloader, the same outcomes of the
\* agent calls and the same iteration at which the stop was seen; and so
\* has a run of the transcription-disabled worker itself.
C33_UnifiedEmitsAsDisabled ==
    (HasFallback(variant) /\ TranscribeUnset /\ pc \in {"returned", "done"}) =>
      WorkerSignals = disabled_run(reel_items, download_options, setup_raised)

\* A run of the unified worker over two queued items, the first completed
\* by the fallback agent, the stop seen before the second.
C33_Witness ==
    /\ variant = "core"
    /\ TranscribeUnset
    /\ pc = "done"
    /\ Len(reel_items) = 2
    /\ ~is_running
    /\ Len(ItemCalls(1)) = 2 /\ ~ItemCalls(1)[2].raised
    /\ ItemCalls(2) = <<>>


\* ---------------------------------------------------------------------------
\* A run started on a queue that has been run before
\* ---------------------------------------------------------------------------

\* A step that starts a worker.
WorkerStarted == running_threads' > running_threads

\* The signal that opens the processing of that url in the present run.
OpeningOf(url) ==
    Starting(variant, url, PrimaryAgent(variant, download_options))

\* Where in `events` the present run last opened the processing of the url.
LastOpening(url) ==
    LET at == {i \in DOMAIN events : events[i] = OpeningOf(url)}
    IN  IF at = {} THEN 0 ELSE CHOOSE i \in at : \A j \in at : j <= i

\* The present run has opened the url and has emitted its terminal signal.
TerminalInRun(url) ==
    LET opened == LastOpening(url)
    IN  /\ url \in CalledUrls
        /\ opened > 0
        /\ \E j \in (opened + 1)..Len(events) :
             events[j].kind \in {"completed", "error"} /\ events[j].url = url

\* The entries of the results tab about that url.
EntriesOf(url) == {i \in DOMAIN results_text : results_text[i].url = url}

\* C34: start_download hands the worker every item of the queue, whatever
\* its status; a run that goes through its loop calls the agents for each
\* of them again and emits a terminal signal for each.
C34_WholeQueueEveryRun ==
    /\ [][WorkerStarted =>
            /\ Len(reel_items') = Len(reel_queue)
            /\ \A k \in DOMAIN reel_queue : reel_items'[k] = reel_queue[k].url
         ]_vars
    /\ [](LoopCompleted =>
            \A k \in DOMAIN reel_items : TerminalInRun(reel_items[k]))

\* The only item of the queue ended in an earlier run, which left its entry
\* in the results tab; a later run has processed it again, and the window
\* has handled the terminal signal of that run as well.
C34_Witness ==
    /\ Len(reel_queue) = 1
    /\ Len(reel_items) = 1
    /\ LoopCompleted
    /\ TerminalInRun(reel_queue[1].url)
    /\ delivered = Len(events)
    /\ Cardinality(EntriesOf(reel_queue[1].url)) = 2


\* ---------------------------------------------------------------------------
\* After the terminal signal of an item
\* ---------------------------------------------------------------------------

\* The terminal signals about that url, by their place in `events`.
TerminalsOf(url) ==
    {i \in DOMAIN events :
       events[i].kind \in {"completed", "error"} /\ events[i].url = url}

\* The window has handled a terminal signal about that url.
TerminalHandled(url) == \E i \in TerminalsOf(url) : i <= delivered

\* C35: in a run the worker emits no signal with the url of an item after
\* the terminal signal of that item, and once the window has handled the
\* terminal signal no step changes the status or the progress of the item.
C35_TerminalIsLast ==
    /\ [](\A k \in DOMAIN reel_items :
            \A i \in TerminalsOf(reel_items[k]) :
              \A j \in (i + 1)..Len(events) : events[j].url # reel_items[k])
    /\ [][\A k \in DOMAIN reel_queue :
            TerminalHandled(reel_queue[k].url) =>
              /\ reel_queue'[k].status = reel_queue[k].status
              /\ reel_queue'[k].progress = reel_queue[k].progress
         ]_vars

\* The first item ended and the window has since handled progress signals
\* of the second item and its terminal signal.
C35_Witness ==
    /\ Len(reel_queue) = 2
    /\ delivered = Len(events)
    /\ reel_queue[1].status = "Completed"
    /\ reel_queue[2].status = "Error"
    /\ \E i \in TerminalsOf(reel_queue[1].url) :
         \E j \in (i + 1)..Len(events) :
           events[j].kind = "progress" /\ events[j].url = reel_queue[2].url


\* ---------------------------------------------------------------------------
\* The percentages an item is reported with
\* ---------------------------------------------------------------------------

\* The progress signals about that url, by their place in `events`.
ProgressOf(url) ==
    {i \in DOMAIN events :
       events[i].kind = "progress" /\ events[i].url = url}

\* C36 (as stated): the percentages of the progress signals that carry the
\* url of an item never decrease, the step from a failed primary agent to
\* the fallback agent included.
C36_Original ==
    \A k \in DOMAIN reel_items :
      \A i, j \in ProgressOf(reel_items[k]) :
        i < j => events[i].pct <= events[j].pct

\* ---------------------------------------------------------------------------
\* The retry loops of the binary download (utils/bin_checker.py)
\* ---------------------------------------------------------------------------

\* while retry_count < max_retries:
KeepTrying_one_more(count, most) == count <= most

KeepTrying(count, most) == count < most

\* The blocks attempt number n has received, each marked with n.
Chunks(n, received) == [i \in 1..received |-> n]

\* What stands before the loop of download_file_with_qt: the import of
\* PyQt6 and file.open(QIODevice.WriteOnly).
QtSetupOutcomes == {"ok", "import_error", "open_refused"}

\* How one request ends: whether it succeeded and how many blocks came in.
AttemptOutcomes == [ok : BOOLEAN, received : 0..MaxChunks]

\* file.open(QIODevice.WriteOnly) creates the file or empties it.
qfile_open(file) == [exists |-> TRUE, data |-> <<>>]

\* on_download_progress: file.write(reply.readAll()), at the position the
\* open file has reached.
on_download_progress_rewinds(file, n, received) ==
    [exists |-> TRUE, data |-> Chunks(n, received)]

on_download_progress(file, n, received) ==
    [exists |-> TRUE, data |-> file.data \o Chunks(n, received)]

\* file.close(); file.remove(): QFile.remove reports a refusal by False,
\* which is not looked at.
qfile_remove(file, removed) ==
    IF removed THEN [exists |-> FALSE, data |-> <<>>] ELSE file

\* urllib.request.urlretrieve(url, dest, reporthook): the url is opened
\* first, and dest is opened for writing ("wb") only after that.
UrlretrieveOutcomes ==
    [ok : BOOLEAN, opened : BOOLEAN, received : 0..MaxChunks]

urlretrieve(file, n, o) ==
    IF o.ok \/ o.opened
    THEN [exists |-> TRUE, data |-> Chunks(n, o.received)]
    ELSE file

\* download_file_with_qt up to the loop.
QtOpen ==
    /\ download_with = "qt"
    /\ retry_pc = "open"
    /\ \E o \in QtSetupOutcomes :
          CASE o = "import_error" ->
                   /\ returned' = "false"
                   /\ retry_pc' = "refused"
                   /\ UNCHANGED dest_file
            [] o = "open_refused" ->
                   /\ returned' = "false"
                   /\ retry_pc' = "refused"
                   /\ UNCHANGED dest_file
            [] o = "ok" ->
                   /\ dest_file' = qfile_open(dest_file)
                   /\ retry_pc' = "loop"
                   /\ UNCHANGED returned
    /\ UNCHANGED <<download_with, max_retries, retry_count, attempt_log>>
    /\ UNCHANGED <<runVars, itemVars, codeVars, clockVars, clipVars,
                   fieldVars, displayVars, running_threads>>

\* One pass of the loop of download_file_with_qt.
QtAttempt ==
    /\ download_with = "qt"
    /\ retry_pc = "loop"
    /\ KeepTrying(retry_count, max_retries)
    /\ \E o \in AttemptOutcomes :
          /\ dest_file' = on_download_progress(dest_file,
                                               Len(attempt_log) + 1,
                                               o.received)
          /\ attempt_log' = Append(attempt_log, o.ok)
          /\ IF o.ok
             THEN /\ returned' = "true"
                  /\ retry_pc' = "done"
                  /\ UNCHANGED retry_count
             ELSE /\ retry_count' = retry_count + 1
                  /\ UNCHANGED <<returned, retry_pc>>
    /\ UNCHANGED <<download_with, max_retries>>
    /\ UNCHANGED <<runVars, itemVars, codeVars, clockVars, clipVars,
                   fieldVars, displayVars, running_threads>>

\* download_file_with_qt behind the loop.
QtGiveUp ==
    /\ download_with = "qt"
    /\ retry_pc = "loop"
    /\ ~KeepTrying(retry_count, max_retries)
    /\ \E removed \in BOOLEAN :
          dest_file' = qfile_remove(dest_file, removed)
    /\ returned' = "false"
    /\ retry_pc' = "done"
    /\ UNCHANGED <<download_with, max_retries, retry_count, attempt_log>>
    /\ UNCHANGED <<runVars, itemVars, codeVars, clockVars, clipVars,
                   fieldVars, displayVars, running_threads>>

\* One pass of the loop of download_file_with_urllib.
UrllibAttempt ==
    /\ download_with = "urllib"
    /\ retry_pc = "loop"
    /\ KeepTrying(retry_count, max_retries)
    /\ \E o \in UrlretrieveOutcomes :
          /\ (o.ok => o.opened)
          /\ dest_file' = urlretrieve(dest_file, Len(attempt_log) + 1, o)
          /\ attempt_log' = Append(attempt_log, o.ok)
          /\ IF o.ok
             THEN /\ returned' = "true"
                  /\ retry_pc' = "done"
                  /\ UNCHANGED retry_count
             ELSE IF retry_count < max_retries - 1
                  THEN /\ retry_count' = retry_count + 1
                       /\ UNCHANGED <<returned, retry_pc>>
                  ELSE /\ returned' = "false"
                       /\ retry_pc' = "done"
                       /\ UNCHANGED retry_count
    /\ UNCHANGED <<download_with, max_retries>>
    /\ UNCHANGED <<runVars, itemVars, codeVars, clockVars, clipVars,
                   fieldVars, displayVars, running_threads>>

\* download_file_with_urllib behind the loop.
UrllibGiveUp ==
    /\ download_with = "urllib"
    /\ retry_pc = "loop"
    /\ ~KeepTrying(retry_count, max_retries)
    /\ returned' = "false"
    /\ retry_pc' = "done"
    /\ UNCHANGED <<download_with, max_retries, retry_count, attempt_log,
                   dest_file>>
    /\ UNCHANGED <<runVars, itemVars, codeVars, clockVars, clipVars,
                   fieldVars, displayVars, running_threads>>

\* A call of one of the two functions, the destination absent or left
\* over from an earlier call.
RetryInit ==
    /\ NoWorker("enabled")
    /\ yt_dlp_exe = TRUE
    /\ reel_queue = <<>>
    /\ ItemIdle
    /\ shortcode_url = <<>>
    /\ shortcode = NotCalled
    /\ url_input = <<>>
    /\ notice = ""
    /\ ClockIdle
    /\ ClipIdle
    /\ download_with \in {"qt", "urllib"}
    /\ max_retries \in 0..MaxRetries
    /\ retry_count = 0
    /\ attempt_log = <<>>
    /\ dest_file \in {[exists |-> FALSE, data |-> <<>>],
                      [exists |-> TRUE, data |-> <<0>>]}
    /\ returned = "none"
    /\ retry_pc = IF download_with = "qt" THEN "open" ELSE "loop"

RetryNext ==
    \/ QtOpen
    \/ QtAttempt
    \/ QtGiveUp
    \/ UrllibAttempt
    \/ UrllibGiveUp

RetrySpec == RetryInit /\ [][RetryNext]_vars

\* A function that has been called goes on until it returns.
RetryFairSpec == RetrySpec /\ WF_vars(RetryNext)


AllFailed == \A k \in 1..Len(attempt_log) : ~attempt_log[k]

\* No attempt follows a successful one, and there are never more than
\* max_retries attempts.
AttemptsInBounds ==
    /\ Len(attempt_log) <= max_retries
    /\ \A k \in 1..(Len(attempt_log) - 1) : ~attempt_log[k]

ReturnsTrueAtFirstSuccess ==
    returned = "true" =>
        /\ Len(attempt_log) >= 1
        /\ attempt_log[Len(attempt_log)]

C38_Original ==
    download_with = "qt" =>
        /\ returned = "true" =>
              /\ dest_file.exists
              /\ \A i \in 1..Len(dest_file.data) :
                    dest_file.data[i] = Len(attempt_log)
        /\ returned = "false" => ~dest_file.exists

\* ---------------------------------------------------------------------------
\* What the queue accepts and what the library-backed agent makes of it
\* ---------------------------------------------------------------------------

\* A typed url in pieces: possibly a scheme with a host as a first piece,
\* then pieces as _extract_shortcode sees them.  No blanks are typed, so
\* the strip() of add_to_queue leaves the text as it is.
Origins == {"https://www.instagram.com", "https://instagram.com",
            "https://example.com"}

HostOf(origin) ==
    CASE origin = "https://www.instagram.com" -> "www.instagram.com"
      [] origin = "https://instagram.com"     -> "instagram.com"
      [] origin = "https://example.com"       -> "example.com"

TypedUrls ==
    {o \o s : o \in {<<>>} \cup {<<t>> : t \in Origins},
              s \in UNION {[1..n -> UrlPieces] : n \in 0..MaxTailLen}}

\* The pieces of s in front of the first one that is in stops.
RECURSIVE UpTo(_, _)
UpTo(s, stops) ==
    IF s = <<>> \/ Head(s) \in stops THEN <<>>
    ELSE <<Head(s)>> \o UpTo(Tail(s), stops)

\* What follows "//" in a url: the host up to the next "/" or "?", then
\* the path up to the "?".
AfterSlashes(u) ==
    IF u # <<>> /\ Head(u) \in Origins THEN Tail(u)
    ELSE IF Len(u) >= 2 /\ u[1] = "/" /\ u[2] = "/" THEN SubSeq(u, 3, Len(u))
    ELSE u

HasAuthority(u) ==
    \/ u # <<>> /\ Head(u) \in Origins
    \/ Len(u) >= 2 /\ u[1] = "/" /\ u[2] = "/"

\* urlparse(url).netloc
urlparse_netloc(u) ==
    IF ~HasAuthority(u) THEN ""
    ELSE (IF Head(u) \in Origins THEN HostOf(Head(u)) ELSE "")
            \o Joined(UpTo(AfterSlashes(u), {"/", "?"}))

\* urlparse(url).path
urlparse_path(u) ==
    LET rest == AfterSlashes(u)
        host == IF HasAuthority(u) THEN Len(UpTo(rest, {"/", "?"})) ELSE 0
    IN  UpTo(SubSeq(rest, host + 1, Len(rest)), {"?"})

\* is_valid_instagram_url of utils/url_validator.py: the marker is looked
\* for in the path.
utils_is_valid_instagram_url(u) ==
    /\ urlparse_netloc(u) \in {"instagram.com", "www.instagram.com"}
    /\ \/ Contains(urlparse_path(u), ReelMarker)
       \/ Contains(urlparse_path(u), PostMarker)

\* _is_valid_instagram_url of the window: the marker is looked for in the
\* whole url.
window_is_valid_instagram_url(u) ==
    /\ urlparse_netloc(u) \in {"instagram.com", "www.instagram.com"}
    /\ \/ Contains(u, ReelMarker)
       \/ Contains(u, PostMarker)

\* add_to_queue, on a url in pieces.
add_typed_url ==
    LET url == Joined(url_input)
    IN  /\ notice = ""
        /\ IF url = ""
           THEN /\ notice' = "nothing typed"
                /\ UNCHANGED <<reel_queue, queue_list, url_input,
                               shortcode_url>>
           ELSE IF ~window_is_valid_instagram_url(url_input)
           THEN /\ notice' = "Invalid URL"
                /\ UNCHANGED <<reel_queue, queue_list, url_input,
                               shortcode_url>>
           ELSE IF AlreadyQueued(reel_queue, url)
           THEN /\ notice' = "Duplicate URL"
                /\ UNCHANGED <<reel_queue, queue_list, url_input,
                               shortcode_url>>
           ELSE /\ reel_queue' = Append(reel_queue, NewItem(url))
                /\ queue_list' = Append(queue_list, NewRow(url))
                /\ url_input' = <<>>
                /\ shortcode_url' = url_input
                /\ notice' = "Added to queue"
        /\ UNCHANGED <<workerVars, is_running, delivered, ui_finished,
                       yt_dlp_exe, itemVars, shortcode, clockVars, clipVars,
                       retryVars, results_text, overall_progress,
                       running_threads>>

\* `if not shortcode: raise ValueError("Invalid Instagram URL")`
InvalidInstagramUrl(code) == ~code.some \/ code.value = <<>>

\* The library-backed agent takes the shortcode of the queued url.
shortcode_of_queued ==
    /\ reel_queue # <<>>
    /\ shortcode = NotCalled
    /\ shortcode' = extract_shortcode(shortcode_url)
    /\ UNCHANGED <<runVars, itemVars, shortcode_url, fieldVars, displayVars,
                   running_threads, clockVars, clipVars, retryVars>>

AcceptInit ==
    /\ NoWorker("enabled")
    /\ yt_dlp_exe = TRUE
    /\ reel_queue = <<>>
    /\ url_input \in TypedUrls
    /\ notice = ""
    /\ ClockIdle
    /\ ClipIdle
    /\ RetryIdle
    /\ shortcode_url = <<>>
    /\ shortcode = NotCalled

AcceptNext == add_typed_url \/ shortcode_of_queued

AcceptSpec == AcceptInit /\ [][AcceptNext]_vars

====
